---- MODULE Spec2Model ----
(***************************************************************************)
(* Query-memory store and content fitter of razorpay-search.               *)
(*                                                                         *)
(* The query-memory collection (src/memory.py and                          *)
(* src/backend/services/memory_service.py, which repeat the same code) is  *)
(* a map from point id to (vector, payload).  A payload is a Python dict,  *)
(* modelled as a function whose DOMAIN is the set of keys present.  Time   *)
(* is counted in ticks of the clock, the unit of the point id.             *)
(***************************************************************************)
EXTENDS Integers, Sequences, FiniteSets, TLC

VARIABLES
    store,      \* the query_memory collection: point id -> [vector, payload]
    clock,      \* the latest reading of time.time(), in ticks
    pc,         \* per caller: where its call in flight stands
    loc,        \* per caller: the locals of its call in flight
    saved,      \* number of save_query calls that returned an id
    last,       \* the call that completed last: what it was and what it did
    ret,        \* the read that just returned: its arguments and its rows
    fit,        \* the chunk_text call that just returned: arguments and result
    docs,       \* the documents collection: point id -> [vector, payload]
    upserted,   \* the doc ids whose upsert_doc stored a document
    run,        \* the ingestion run: where it stands and what its last step did
    verdict,    \* the usefulness filter call that just returned, and its answer
    app,        \* the backend process: how its start went, its optional services
    http,       \* the request made last to the backend, and its response
    setup,      \* collection creation: which collections exist, callers' positions
    paging      \* the history fetch of the Slack channel at hand, page by page

memoryVars == <<store, clock, pc, loc, saved, last, ret>>

ingestVars == <<docs, upserted, run>>

backendVars == <<app, http>>

scriptVars == <<setup, paging>>

vars ==
    <<store, clock, pc, loc, saved, last, ret, fit, docs, upserted, run, verdict,
      app, http, setup, paging>>

\* ------------------------------------------------------------------ bounds

\* save_query calls that return, and ticks the clock runs for.
MaxSaves == 2
MaxClock == 2
\* Records in a collection that is read.
MaxStored == 3
\* Longest text and largest token budget given to the content fitter, and
\* longest summary the model returns, in characters and tokens.
MaxTextLen == 100
MaxTokens == 18
MaxSummaryLen == 14
\* Repositories or channels of an ingestion run, items a fetch returns, and
\* ingestion runs.
MaxUnits == 2
MaxItems == 2
MaxRuns == 2
\* Longest response of the usefulness filter's model, in pieces.
MaxPieces == 3

\* Requests of one channel's history at most; the history is finite.
MaxPages == 3

\* max_messages of ingest_channel_messages is 0..MaxMessages.
MaxMessages == 3
\* Clock ticks in a second: 1000000 in the code, fewer here to keep a day
\* within 32-bit integers.
TicksPerSecond == 1

\* ------------------------------------------------------------ input values

Procs == {1, 2}

TENANT_ID == "org1"
OtherTenant == "org2"

NoUser == "None"

QDeploy == "deploy to production"
QDeploy2 == "deploy production"
QAuth == "authentication issues"

NoMetadata == <<>>

\* ---------------------------------------------------- Python dict helpers

Range(s) == {s[i] : i \in DOMAIN s}

Get(d, k, default) == IF k \in DOMAIN d THEN d[k] ELSE default

Update(d, e) == e @@ d

RECURSIVE Count(_, _)
Count(x, s) ==
    IF s = <<>> THEN 0
    ELSE (IF Head(s) = x THEN 1 ELSE 0) + Count(x, Tail(s))

\* ------------------------------------------------------------- embeddings

\* embed(text): the provider maps equal text to the same vector; a vector is
\* identified by the text it embeds.
Embed(text) == text

\* Cosine similarity of two vectors, in hundredths.
Score(v, w) ==
    IF v = w THEN 100
    ELSE IF {v, w} = {QDeploy, QDeploy2} THEN 90
    ELSE 20

\* ------------------------------------------------------ vector store calls

\* An upsert that stores nothing.
UpsertNothing(s, id, vector, payload) == s

\* qdrant.upsert(points=[PointStruct(id, vector, payload)]): insert, or replace
\* the point that already has this id.
Upsert(s, id, vector, payload) ==
    [i \in DOMAIN s \cup {id} |->
        IF i = id THEN [vector |-> vector, payload |-> payload] ELSE s[i]]

\* qdrant.set_payload(payload, points=[id]): set the given keys on the point,
\* keep its other keys; no effect on an id that is not stored.
\* A set_payload that keeps the clicks stored since the payload was read: the
\* new list is the stored one with the payload's last click appended.
SetPayloadMerging(s, id, payload) ==
    IF id \in DOMAIN s
    THEN LET stored == Get(s[id].payload, "results_clicked", <<>>)
             given == Get(payload, "results_clicked", <<>>)
             merged == IF given = <<>> THEN stored
                       ELSE Append(stored, given[Len(given)])
         IN  [s EXCEPT ![id].payload =
                 Update(@, Update(payload, [results_clicked |-> merged,
                                            click_count |-> Len(merged)]))]
    ELSE s

SetPayload(s, id, payload) ==
    IF id \in DOMAIN s
    THEN [s EXCEPT ![id].payload = Update(@, payload)]
    ELSE s

\* Filter(must=[FieldCondition(key, MatchValue(value)), ...]): every listed key
\* is present with the listed value.
Matches(payload, filter) ==
    \A k \in DOMAIN filter : k \in DOMAIN payload /\ payload[k] = filter[k]

\* qdrant.query_points(query=NearestQuery(v), query_filter, limit,
\* score_threshold): the ids of up to `limit` matching points of score at least
\* the threshold, best first.  Points of equal score come in either order, so
\* the call has a set of possible answers.
QueryPoints(s, v, filter, limit, threshold) ==
    LET cand == {i \in DOMAIN s :
                    /\ Matches(s[i].payload, filter)
                    /\ Score(s[i].vector, v) >= threshold}
        n == IF Cardinality(cand) < limit THEN Cardinality(cand) ELSE limit
    IN  {r \in [1..n -> cand] :
            /\ \A i, j \in 1..n : i < j =>
                    /\ r[i] # r[j]
                    /\ Score(s[r[i]].vector, v) >= Score(s[r[j]].vector, v)
            /\ \A i \in 1..n : \A o \in cand \ Range(r) :
                    Score(s[r[i]].vector, v) >= Score(s[o].vector, v)}

NoThreshold == 0

\* ---------------------------------------------------------------- requests

\* save_query(query, user_id, results_clicked, sources_searched, result_count,
\* metadata) as issued by a deployment whose ORG_NAME is `tenant`.
SaveArgs ==
    { [tenant |-> TENANT_ID, query |-> QDeploy, user_id |-> "alice",
       results_clicked |-> <<>>, sources_searched |-> <<"slack", "github">>,
       result_count |-> 12, metadata |-> NoMetadata],
      [tenant |-> TENANT_ID, query |-> QDeploy2, user_id |-> NoUser,
       results_clicked |-> <<"r1", "r2">>, sources_searched |-> <<>>,
       result_count |-> 10, metadata |-> NoMetadata],
      [tenant |-> TENANT_ID, query |-> QAuth, user_id |-> "bob",
       results_clicked |-> <<"r1", "r1">>, sources_searched |-> <<"slack">>,
       result_count |-> 5, metadata |-> NoMetadata],
      [tenant |-> TENANT_ID, query |-> QDeploy, user_id |-> "alice",
       results_clicked |-> <<>>, sources_searched |-> <<>>,
       result_count |-> 1, metadata |-> [click_count |-> 3]],
      [tenant |-> OtherTenant, query |-> QDeploy, user_id |-> "alice",
       results_clicked |-> <<>>, sources_searched |-> <<"slack">>,
       result_count |-> 1, metadata |-> [query_length |-> 20]] }

\* update_query_click(query, result_id, user_id), likewise.
ClickArgs ==
    { [tenant |-> TENANT_ID, query |-> QDeploy, result_id |-> "r1", user_id |-> "alice"],
      [tenant |-> TENANT_ID, query |-> QDeploy, result_id |-> "r2", user_id |-> "alice"],
      [tenant |-> TENANT_ID, query |-> QDeploy2, result_id |-> "r1", user_id |-> NoUser],
      [tenant |-> TENANT_ID, query |-> QAuth, result_id |-> "r1", user_id |-> "bob"],
      [tenant |-> OtherTenant, query |-> QAuth, result_id |-> "r2", user_id |-> NoUser] }

\* ---------------------------------------------------------------- payloads

\* save_query's payload: the five fixed keys, then each optional key only when
\* its argument is truthy, then metadata's keys over everything.
BuildPayload(a, timestamp) ==
    LET base == [query |-> a.query, tenant_id |-> a.tenant,
                 timestamp |-> timestamp, result_count |-> a.result_count,
                 type |-> "query_memory"]
        p1 == IF a.user_id # NoUser
              THEN Update(base, [user_id |-> a.user_id]) ELSE base
        p2 == IF a.results_clicked # <<>>
              THEN Update(p1, [results_clicked |-> a.results_clicked,
                               click_count |-> Len(a.results_clicked)])
              ELSE p1
        p3 == IF a.sources_searched # <<>>
              THEN Update(p2, [sources_searched |-> a.sources_searched]) ELSE p2
    IN  IF DOMAIN a.metadata # {} THEN Update(p3, a.metadata) ELSE p3

\* A filter that forgets the tenant.
ScopeFilterUserOnly(tenant, user_id) ==
    IF user_id # NoUser THEN [user_id |-> user_id] ELSE <<>>

\* A filter that forgets the user.
ScopeFilterTenantOnly(tenant, user_id) == [tenant_id |-> tenant]

\* The filter every memory operation builds: the tenant always, the user when
\* user_id is truthy.
ScopeFilter(tenant, user_id) ==
    IF user_id # NoUser
    THEN [tenant_id |-> tenant, user_id |-> user_id]
    ELSE [tenant_id |-> tenant]

\* update_query_click's new payload for the point it found: the point's whole
\* payload with result_id appended to results_clicked and click_count recounted.
ClickedPayload(current_payload, result_id) ==
    LET clicked == Append(Get(current_payload, "results_clicked", <<>>), result_id)
    IN  Update(current_payload,
               [results_clicked |-> clicked, click_count |-> Len(clicked)])

\* ------------------------------------------------------------------- state

NoArgs == [tenant |-> "", query |-> "", user_id |-> NoUser, result_id |-> ""]

NoLocals == [args |-> NoArgs, id |-> 0, vector |-> "", payload |-> <<>>]

\* What the call that completed last was: its name, and for a click its
\* arguments; "raised" when it ended in an exception.
NoCall == [op |-> "none", args |-> NoArgs]

NoRead == [op |-> "none", args |-> <<>>, rows |-> <<>>]
NoFit == [op |-> "none", text |-> 0, max_tokens |-> 0, path |-> "none", result |-> 0]

NoDoc == <<"", 0, 0>>

NoRun ==
    [source |-> "none", phase |-> "idle", unit |-> 0, todo |-> <<>>,
     item |-> NoDoc, exists |-> "none", log |-> <<>>, outcome |-> "none",
     fault |-> "none", attempted |-> {}, caught |-> FALSE, runs |-> 0]

\* The environment of a backend process: whether the constructor of each
\* service succeeds in it.
NoEnv == [embedding |-> FALSE, vector_db |-> FALSE, llm |-> FALSE, memory |-> FALSE]

\* The backend before `python main.py`.
NoApp == [phase |-> "down", env |-> NoEnv, llm_service |-> FALSE,
          memory_service |-> FALSE]

\* memory = None in a search response.
NoMemory ==
    [present |-> FALSE, similar_queries |-> <<>>, recent_history |-> <<>>,
     suggestions |-> <<>>]

NoBody ==
    [results |-> <<>>, enriched_query |-> "", memory |-> NoMemory, list |-> <<>>,
     message |-> ""]

\* No request made; status 0 is a request that got no response.
NoHttp ==
    [endpoint |-> "none", query |-> "", user_id |-> NoUser, failed |-> {},
     status |-> 0, body |-> NoBody]

\* The names of the two collections of the one Qdrant store.
COLLECTION_NAME == "documents"

MEMORY_COLLECTION_NAME == "query_memory"

\* The programs that call their ensure_collection on the shared store: the two
\* ingestion scripts, the memory module and the backend's memory service.
Callers == {"ingest.py", "ingest_slack.py", "memory.py", "memory_service.py"}

\* No collection exists and no ensure_collection call is in flight.
NoSetup ==
    [exists |-> {}, pc |-> [c \in Callers |-> "idle"],
     seen |-> [c \in Callers |-> FALSE], raced |-> [c \in Callers |-> FALSE]]

\* No channel history is being fetched.  `failed` keeps the channels whose
\* fetch raised.
NoPaging ==
    [state |-> "idle", limit |-> 0, max_messages |-> 0, all_messages |-> <<>>,
     cursor |-> "", page |-> 1, requests |-> 0, has_more |-> FALSE,
     next_cursor |-> "", discarded |-> 0, failed |-> {}]

\* No usefulness filter call has returned.
NoVerdict == [op |-> "none", response |-> <<>>, answered |-> FALSE, result |-> FALSE]

InFlight == {p \in Procs : pc[p] # "idle"}

Init ==
    /\ store = <<>>
    /\ clock = 0
    /\ pc = [p \in Procs |-> "idle"]
    /\ loc = [p \in Procs |-> NoLocals]
    /\ saved = 0
    /\ last = NoCall
    /\ ret = NoRead
    /\ fit = NoFit
    /\ docs = <<>>
    /\ upserted = {}
    /\ run = NoRun
    /\ verdict = NoVerdict
    /\ app = NoApp
    /\ http = NoHttp
    /\ setup = NoSetup
    /\ paging = NoPaging

\* ------------------------------------------------------------- save_query

\* save_query up to the upsert: read the clock for the timestamp and the id,
\* embed the query (which may raise), build the payload.  `elapsed` is the
\* number of ticks since the latest clock reading by any caller.
SaveBegin(p, a, elapsed) ==
    /\ pc[p] = "idle"
    /\ saved + Cardinality({q \in Procs : pc[q] = "save_upsert"}) < MaxSaves
    /\ clock + elapsed <= MaxClock
    /\ clock' = clock + elapsed
    /\ \E embedded \in BOOLEAN :
        IF embedded
        THEN /\ pc' = [pc EXCEPT ![p] = "save_upsert"]
             /\ loc' = [loc EXCEPT ![p] =
                    [args |-> NoArgs, id |-> clock', vector |-> Embed(a.query),
                     payload |-> BuildPayload(a, clock')]]
             /\ UNCHANGED last
        ELSE /\ last' = [op |-> "raised", args |-> NoArgs]
             /\ UNCHANGED <<pc, loc>>
    /\ UNCHANGED <<store, saved, ret, fit, ingestVars, scriptVars, verdict, backendVars>>

\* save_query's upsert and return.
SaveUpsert(p) ==
    /\ pc[p] = "save_upsert"
    /\ store' = Upsert(store, loc[p].id, loc[p].vector, loc[p].payload)
    /\ saved' = saved + 1
    /\ last' = [op |-> "save_query", args |-> NoArgs]
    /\ pc' = [pc EXCEPT ![p] = "idle"]
    /\ loc' = [loc EXCEPT ![p] = NoLocals]
    /\ UNCHANGED <<clock, ret, fit, ingestVars, scriptVars, verdict, backendVars>>

\* ------------------------------------------------------ update_query_click

\* What update_query_click(c) finds and decides on store s, one outcome per
\* answer the nearest-point query can give: the point found (0 when none is in
\* scope), whether a write follows, and the payload to write.
ClickOutcomes(s, c) ==
    { IF points = <<>>
      THEN [id |-> 0, write |-> FALSE, payload |-> <<>>]
      ELSE LET current_payload == s[points[1]].payload
               clicked == Get(current_payload, "results_clicked", <<>>)
           IN  IF c.result_id \in Range(clicked)
               THEN [id |-> points[1], write |-> FALSE, payload |-> <<>>]
               ELSE [id |-> points[1], write |-> TRUE,
                     payload |-> ClickedPayload(current_payload, c.result_id)]
      : points \in QueryPoints(s, Embed(c.query),
                               ScopeFilter(c.tenant, c.user_id),
                               1, NoThreshold) }

\* update_query_click up to set_payload: embed the query (which may raise),
\* ask for the one nearest point in scope, and decide from its payload.
ClickBegin(p, c) ==
    /\ pc[p] = "idle"
    /\ \E embedded \in BOOLEAN :
        IF ~embedded
        THEN /\ last' = [op |-> "raised", args |-> NoArgs]
             /\ UNCHANGED <<pc, loc>>
        ELSE \E o \in ClickOutcomes(store, c) :
            IF o.write
            THEN /\ pc' = [pc EXCEPT ![p] = "click_write"]
                 /\ loc' = [loc EXCEPT ![p] =
                        [args |-> c, id |-> o.id, vector |-> Embed(c.query),
                         payload |-> o.payload]]
                 /\ UNCHANGED last
            ELSE /\ last' = [op |-> "update_query_click", args |-> c]
                 /\ UNCHANGED <<pc, loc>>
    /\ UNCHANGED <<store, clock, saved, ret, fit, ingestVars, scriptVars, verdict, backendVars>>

\* update_query_click's set_payload and return.
ClickWrite(p) ==
    /\ pc[p] = "click_write"
    /\ store' = SetPayload(store, loc[p].id, loc[p].payload)
    /\ last' = [op |-> "update_query_click", args |-> loc[p].args]
    /\ pc' = [pc EXCEPT ![p] = "idle"]
    /\ loc' = [loc EXCEPT ![p] = NoLocals]
    /\ UNCHANGED <<clock, saved, ret, fit, ingestVars, scriptVars, verdict, backendVars>>

\* ------------------------------------------------------------------ reads

\* One day in ticks: days_back * 24 * 60 * 60 seconds.
Day == 24 * 60 * 60 * TicksPerSecond

Min(a, b) == IF a < b THEN a ELSE b

RECURSIVE Ascending(_)
Ascending(S) ==
    IF S = {} THEN <<>>
    ELSE LET m == CHOOSE x \in S : \A y \in S : x <= y
         IN  <<m>> \o Ascending(S \ {m})

Take(s, n) == SubSeq(s, 1, Min(n, Len(s)))

\* qdrant.scroll(scroll_filter, limit): one page of up to `limit` matching
\* points.  Which matching points the page holds is the store's choice; within
\* the page they come by ascending id.
Scroll(s, filter, limit) ==
    LET cand == {i \in DOMAIN s : Matches(s[i].payload, filter)}
        n == Min(limit, Cardinality(cand))
    IN  {Ascending(page) : page \in {T \in SUBSET cand : Cardinality(T) = n}}

\* The dict get_similar_queries builds for a point; `id` is kept to tell which
\* stored record a row came from.
SimilarRow(s, id, v) ==
    LET payload == s[id].payload
    IN  [id |-> id,
         query |-> Get(payload, "query", ""),
         score |-> Score(s[id].vector, v),
         timestamp |-> Get(payload, "timestamp", 0),
         user_id |-> Get(payload, "user_id", NoUser),
         click_count |-> Get(payload, "click_count", 0),
         sources_searched |-> Get(payload, "sources_searched", <<>>),
         result_count |-> Get(payload, "result_count", 0)]

\* get_similar_queries(query, limit, user_id, min_score): its possible results.
\* min_score and the scores are in hundredths.
GetSimilarQueries(s, tenant, query, limit, user_id, min_score) ==
    { [k \in DOMAIN points |-> SimilarRow(s, points[k], Embed(query))]
      : points \in QueryPoints(s, Embed(query), ScopeFilter(tenant, user_id),
                               limit, min_score) }

\* The dict get_query_history builds for a point.
HistoryRow(s, id) ==
    LET payload == s[id].payload
    IN  [id |-> id,
         query |-> Get(payload, "query", ""),
         timestamp |-> Get(payload, "timestamp", 0),
         user_id |-> Get(payload, "user_id", NoUser),
         click_count |-> Get(payload, "click_count", 0),
         sources_searched |-> Get(payload, "sources_searched", <<>>),
         result_count |-> Get(payload, "result_count", 0)]

\* A row inserted into rows sorted newest first, after the rows that are not
\* older than it (list.sort is stable, also with reverse=True).
InsertNewestFirst(sorted, row) ==
    LET k == Cardinality({i \in 1..Len(sorted) :
                            sorted[i].timestamp >= row.timestamp})
    IN  SubSeq(sorted, 1, k) \o <<row>> \o SubSeq(sorted, k + 1, Len(sorted))

\* The rows as they are.
KeepPageOrder(rows) == rows

\* queries.sort(key=timestamp, reverse=True)
RECURSIVE SortNewestFirst(_)
SortNewestFirst(rows) ==
    IF rows = <<>> THEN <<>>
    ELSE InsertNewestFirst(SortNewestFirst(SubSeq(rows, 1, Len(rows) - 1)),
                           rows[Len(rows)])

\* The days_back filter: applied when days_back is truthy (0 stands for both
\* None and 0), it keeps the rows with a timestamp later than now less
\* days_back days.
NewerThan(rows, days_back, now) ==
    IF days_back # 0
    THEN LET Recent(q) == q.timestamp # 0 /\ q.timestamp > now - days_back * Day
         IN  SelectSeq(rows, Recent)
    ELSE rows

\* get_query_history(user_id, limit, days_back) at time `now`: its possible
\* results, one per page the scroll can return.
\* A scan asked for as many records as the caller wants back.
ScanLimitExact(limit) == limit

\* limit=limit * 2: the number of records the scan is asked for.
ScanLimit(limit) == limit * 2

GetQueryHistory(s, tenant, user_id, limit, days_back, now) ==
    { Take(NewerThan(SortNewestFirst([k \in DOMAIN page |-> HistoryRow(s, page[k])]),
                     days_back, now),
           limit)
      : page \in Scroll(s, ScopeFilter(tenant, user_id), ScanLimit(limit)) }

\* The clicks forgotten.
PopularityScoreByCount(count, total_clicks) == count * 10

\* count * (1 + total_clicks / 10), in tenths.
PopularityScore(count, total_clicks) == count * (10 + total_clicks)

\* An aggregation whose total_clicks is the click count of the row met last.
RECURSIVE AggregateOverwriting(_, _)
AggregateOverwriting(stats, rows) ==
    IF rows = <<>> THEN stats
    ELSE LET q == Head(rows)
             known == {k \in DOMAIN stats : stats[k].query = q.query}
             seeded == IF known = {}
                       THEN Append(stats, [query |-> q.query, count |-> 0,
                                           total_clicks |-> 0,
                                           last_seen |-> q.timestamp,
                                           sources |-> {}])
                       ELSE stats
             k == CHOOSE j \in DOMAIN seeded : seeded[j].query = q.query
             e == seeded[k]
         IN  AggregateOverwriting(
                [seeded EXCEPT ![k] =
                    [query |-> e.query,
                     count |-> e.count + 1,
                     total_clicks |-> q.click_count,
                     last_seen |-> IF q.timestamp > e.last_seen
                                   THEN q.timestamp ELSE e.last_seen,
                     sources |-> e.sources \cup Range(q.sources_searched)]],
                Tail(rows))

\* get_popular_queries' loop over the history rows: query_stats, in the order
\* its keys were inserted.
RECURSIVE Aggregate(_, _)
Aggregate(stats, rows) ==
    IF rows = <<>> THEN stats
    ELSE LET q == Head(rows)
             known == {k \in DOMAIN stats : stats[k].query = q.query}
             seeded == IF known = {}
                       THEN Append(stats, [query |-> q.query, count |-> 0,
                                           total_clicks |-> 0,
                                           last_seen |-> q.timestamp,
                                           sources |-> {}])
                       ELSE stats
             k == CHOOSE j \in DOMAIN seeded : seeded[j].query = q.query
             e == seeded[k]
         IN  Aggregate(
                [seeded EXCEPT ![k] =
                    [query |-> e.query,
                     count |-> e.count + 1,
                     total_clicks |-> e.total_clicks + q.click_count,
                     last_seen |-> IF q.timestamp > e.last_seen
                                   THEN q.timestamp ELSE e.last_seen,
                     sources |-> e.sources \cup Range(q.sources_searched)]],
                Tail(rows))

Scored(e) ==
    [query |-> e.query, count |-> e.count, total_clicks |-> e.total_clicks,
     last_seen |-> e.last_seen, sources |-> e.sources,
     popularity_score |-> PopularityScore(e.count, e.total_clicks)]

InsertMostPopularFirst(sorted, e) ==
    LET k == Cardinality({i \in 1..Len(sorted) :
                            sorted[i].popularity_score >= e.popularity_score})
    IN  SubSeq(sorted, 1, k) \o <<e>> \o SubSeq(sorted, k + 1, Len(sorted))

\* popular.sort(key=popularity_score, reverse=True)
RECURSIVE SortMostPopularFirst(_)
SortMostPopularFirst(es) ==
    IF es = <<>> THEN <<>>
    ELSE InsertMostPopularFirst(SortMostPopularFirst(SubSeq(es, 1, Len(es) - 1)),
                                es[Len(es)])

\* The limit get_popular_queries passes to get_query_history.
PopularHistoryLimit == 1000

\* get_popular_queries(limit, days_back) at time `now`: its possible results.
GetPopularQueries(s, tenant, limit, days_back, now) ==
    { LET stats == Aggregate(<<>>, recent_queries)
      IN  Take(SortMostPopularFirst([k \in DOMAIN stats |-> Scored(stats[k])]),
               limit)
      : recent_queries \in GetQueryHistory(s, tenant, NoUser,
                                           PopularHistoryLimit, days_back, now) }

\* ------------------------------------------------------------- read inputs

Tenants == {TENANT_ID, OtherTenant}
Users == {NoUser, "alice", "bob"}
Limits == {1, 2}
MinScores == {0, 70, 95}
DaysBack == {0, 1, 2}

\* The time of the reads, and the earlier times at which the records read were
\* saved: a third of a day apart, every third one exactly on a day's cutoff.
ReadNow == 3 * Day

ReadTimes == {ReadNow - k * (Day \div 3) : k \in 1..MaxStored}

\* The record save_query(a) stored at time t.
Saved(a, t) == [vector |-> Embed(a.query), payload |-> BuildPayload(a, t)]

\* The collections read: any records, saved by any of the save_query calls at
\* any of these times.
ReadStores ==
    UNION { [T -> SaveArgs] : T \in SUBSET ReadTimes }

FifteenClicks ==
    <<"c01", "c02", "c03", "c04", "c05", "c06", "c07", "c08", "c09", "c10",
      "c11", "c12", "c13", "c14", "c15">>

\* A query saved five times and never clicked, another saved twice with fifteen
\* clicks each, all within the last seven ticks.
ScenarioStore ==
    [t \in {ReadNow - k : k \in 1..7} |->
        IF t >= ReadNow - 5
        THEN Saved([tenant |-> TENANT_ID, query |-> QDeploy, user_id |-> "alice",
                    results_clicked |-> <<>>, sources_searched |-> <<"slack">>,
                    result_count |-> 12, metadata |-> NoMetadata], t)
        ELSE Saved([tenant |-> TENANT_ID, query |-> QAuth, user_id |-> "bob",
                    results_clicked |-> FifteenClicks, sources_searched |-> <<>>,
                    result_count |-> 5, metadata |-> NoMetadata], t)]

InitRead ==
    /\ \/ \E picked \in ReadStores :
            store = [t \in DOMAIN picked |-> Saved(picked[t], t)]
       \/ store = ScenarioStore
    /\ clock = ReadNow
    /\ pc = [p \in Procs |-> "idle"]
    /\ loc = [p \in Procs |-> NoLocals]
    /\ saved = Cardinality(DOMAIN store)
    /\ last = NoCall
    /\ ret = NoRead
    /\ fit = NoFit
    /\ docs = <<>>
    /\ upserted = {}
    /\ run = NoRun
    /\ verdict = NoVerdict
    /\ app = NoApp
    /\ http = NoHttp
    /\ setup = NoSetup
    /\ paging = NoPaging

\* get_similar_queries: embed the query (which may raise), then query.
ReadSimilar(tenant, query, limit, user_id, min_score) ==
    /\ ret = NoRead
    /\ \E embedded \in BOOLEAN :
        IF embedded
        THEN /\ \E rows \in GetSimilarQueries(store, tenant, query, limit,
                                               user_id, min_score) :
                    ret' = [op |-> "get_similar_queries",
                            args |-> [tenant |-> tenant, query |-> query,
                                      limit |-> limit, user_id |-> user_id,
                                      min_score |-> min_score],
                            rows |-> rows]
             /\ UNCHANGED last
        ELSE /\ last' = [op |-> "raised", args |-> NoArgs]
             /\ UNCHANGED ret
    /\ UNCHANGED <<store, clock, pc, loc, saved, fit, ingestVars, scriptVars, verdict, backendVars>>

ReadHistory(tenant, user_id, limit, days_back) ==
    /\ ret = NoRead
    /\ \E rows \in GetQueryHistory(store, tenant, user_id, limit, days_back, clock) :
        ret' = [op |-> "get_query_history",
                args |-> [tenant |-> tenant, user_id |-> user_id, limit |-> limit,
                          days_back |-> days_back],
                rows |-> rows]
    /\ UNCHANGED <<store, clock, pc, loc, saved, last, fit, ingestVars, scriptVars, verdict, backendVars>>

ReadPopular(tenant, limit, days_back) ==
    /\ ret = NoRead
    /\ \E rows \in GetPopularQueries(store, tenant, limit, days_back, clock) :
        ret' = [op |-> "get_popular_queries",
                args |-> [tenant |-> tenant, limit |-> limit,
                          days_back |-> days_back],
                rows |-> rows]
    /\ UNCHANGED <<store, clock, pc, loc, saved, last, fit, ingestVars, scriptVars, verdict, backendVars>>

\* The caller takes the rows returned.
ReadReturn ==
    /\ ret # NoRead
    /\ ret' = NoRead
    /\ UNCHANGED <<store, clock, pc, loc, saved, last, fit, ingestVars, scriptVars, verdict, backendVars>>

NextRead ==
    \/ ReadReturn
    \/ \E t \in Tenants, q \in {QDeploy, QAuth}, n \in Limits, u \in Users,
          m \in MinScores : ReadSimilar(t, q, n, u, m)
    \/ \E t \in Tenants, u \in Users, n \in Limits, d \in DaysBack :
          ReadHistory(t, u, n, d)
    \/ \E t \in Tenants, n \in Limits \cup {0}, d \in DaysBack :
          ReadPopular(t, n, d)

SpecRead == InitRead /\ [][NextRead]_vars


\* ----------------------------------------------------------- content fitter

\* chunk_text only measures, cuts and joins text, so a text is modelled by its
\* length in characters.  The lengths of the three notes it appends:
\*   "\n\n[Note: This content was summarized due to length constraints]"
\*   "\n\n[Note: Content was summarized and truncated due to length]"
\*   "\n\n[Note: Content truncated due to length]"
SummarizedNote == 63
SummarizedAndTruncatedNote == 60
TruncatedNote == 41

CharsPerToken == 4

estimate_tokens(text) == text \div CharsPerToken

\* text[:n] for n >= 0
Prefix(text, n) == Min(text, n)

\* What the chat completion does: it returns a summary (any text, stripped)
\* or raises.
Completions ==
    {[ok |-> TRUE, summary |-> n] : n \in 0..MaxSummaryLen}
        \cup {[ok |-> FALSE, summary |-> 0]}

\* chunk_text(text, max_tokens) when the chat completion does `llm`: the path
\* taken and the text returned.
chunk_text(text, max_tokens, llm) ==
    LET max_chars == max_tokens * CharsPerToken
        result == llm.summary + SummarizedNote
    IN  IF estimate_tokens(text) <= max_tokens
        THEN [path |-> "fits", result |-> text]
        ELSE IF llm.ok
        THEN IF estimate_tokens(result) > max_tokens
             THEN [path |-> "summarized and truncated",
                   result |-> Prefix(result, max_chars) + SummarizedAndTruncatedNote]
             ELSE [path |-> "summarized", result |-> result]
        ELSE [path |-> "truncated",
              result |-> Prefix(text, max_chars) + TruncatedNote]

ChunkText(text, max_tokens, llm) ==
    /\ fit = NoFit
    /\ LET r == chunk_text(text, max_tokens, llm)
       IN  fit' = [op |-> "chunk_text", text |-> text, max_tokens |-> max_tokens,
                   path |-> r.path, result |-> r.result]
    /\ UNCHANGED <<memoryVars, ingestVars, scriptVars, verdict, backendVars>>

\* The caller takes the text returned.
ChunkReturn ==
    /\ fit # NoFit
    /\ fit' = NoFit
    /\ UNCHANGED <<memoryVars, ingestVars, scriptVars, verdict, backendVars>>

NextFit ==
    \/ \E text \in 0..MaxTextLen, max_tokens \in 0..MaxTokens, llm \in Completions :
            ChunkText(text, max_tokens, llm)
    \/ ChunkReturn

SpecFit == Init /\ [][NextFit]_vars

\* ---------------------------------------------------------- usefulness filter

\* A response of the model is a text, kept as the sequence of its pieces: the
\* words the filter looks for in either case, the two separators, and a
\* piece that is none of them.
Pieces == {"NOT", "not", "USEFUL", "useful", "_", " ", "x"}

Responses == UNION {[1..k -> Pieces] : k \in 0..MaxPieces}

\* str.upper()
UpperPiece(piece) ==
    CASE piece = "not" -> "NOT"
      [] piece = "useful" -> "USEFUL"
      [] OTHER -> piece

upper(text) == [k \in DOMAIN text |-> UpperPiece(text[k])]

\* str.strip(): without the white space at either end.
RECURSIVE lstrip(_)
lstrip(text) ==
    IF text # <<>> /\ Head(text) = " " THEN lstrip(Tail(text)) ELSE text

RECURSIVE rstrip(_)
rstrip(text) ==
    IF text # <<>> /\ text[Len(text)] = " "
    THEN rstrip(SubSeq(text, 1, Len(text) - 1))
    ELSE text

strip(text) == rstrip(lstrip(text))

\* `pattern in text`
Contains(text, pattern) ==
    \E k \in 0..(Len(text) - Len(pattern)) :
        SubSeq(text, k + 1, k + Len(pattern)) = pattern

NOT_USEFUL == <<"NOT", "_", "USEFUL">>

NOT_SPACE_USEFUL == <<"NOT", " ", "USEFUL">>

USEFUL == <<"USEFUL">>

\* is_useful_commit(commit_message): `answered` is whether the completion
\* returned a text; any exception of the call is an answer of True.
is_useful_commit(response, answered) ==
    IF ~answered THEN TRUE
    ELSE LET result == upper(strip(response))
         IN  IF Contains(result, NOT_USEFUL) \/ Contains(result, NOT_SPACE_USEFUL)
             THEN FALSE
             ELSE IF Contains(result, USEFUL) THEN TRUE
             ELSE TRUE

\* A message filter that includes what it cannot read, as the commit filter
\* does.
is_useful_message_including(response, answered) ==
    is_useful_commit(response, answered)

\* is_useful_message(message_text, thread_context)
is_useful_message(response, answered) ==
    IF ~answered THEN TRUE
    ELSE LET result == upper(strip(response))
         IN  IF Contains(result, NOT_USEFUL) \/ Contains(result, NOT_SPACE_USEFUL)
             THEN FALSE
             ELSE IF Contains(result, USEFUL) THEN TRUE
             ELSE FALSE

IsUsefulCommit(response, answered) ==
    /\ verdict = NoVerdict
    /\ verdict' = [op |-> "is_useful_commit", response |-> response,
                   answered |-> answered,
                   result |-> is_useful_commit(response, answered)]
    /\ UNCHANGED <<memoryVars, fit, ingestVars, scriptVars, backendVars>>

IsUsefulMessage(response, answered) ==
    /\ verdict = NoVerdict
    /\ verdict' = [op |-> "is_useful_message", response |-> response,
                   answered |-> answered,
                   result |-> is_useful_message(response, answered)]
    /\ UNCHANGED <<memoryVars, fit, ingestVars, scriptVars, backendVars>>

VerdictReturn ==
    /\ verdict # NoVerdict
    /\ verdict' = NoVerdict
    /\ UNCHANGED <<memoryVars, fit, ingestVars, scriptVars, backendVars>>

NextFilter ==
    \/ \E response \in Responses, answered \in BOOLEAN :
            IsUsefulCommit(IF answered THEN response ELSE <<>>, answered)
    \/ \E response \in Responses, answered \in BOOLEAN :
            IsUsefulMessage(IF answered THEN response ELSE <<>>, answered)
    \/ VerdictReturn

SpecFilter == Init /\ [][NextFilter]_vars

\* ---------------------------------------------------------------- ingestion

\* src/ingest.py and src/ingest_slack.py write the "documents" collection.  A
\* document's content is a text and whether the LLM's analysis was appended
\* to it; a doc id is the text the code formats, kept as its parts:
\* <<"gh_pr", repo, number>> for f"gh_pr_{repo_name}_{pr['number']}".
Units == 1..MaxUnits

Texts == {"v1", "v2"}

DocIds ==
    {<<site, u, 0>> : site \in {"gh_readme", "gh_commit"}, u \in Units}
        \cup {<<site, u, 1>> : site \in {"gh_pr", "slack_msg"}, u \in Units}

\* uuid.uuid5(NAMESPACE_DNS, value): a name-based id, the same for the same
\* text and, SHA-1 collisions aside, different for different texts.
\* An id that is the same for every text.
str_to_one_uuid(value) == <<"uuid5", NoDoc>>

str_to_uuid(value) == <<"uuid5", value>>

\* embed(text): the embedding of the fitted text.  The texts of a run ("v1",
\* "v2") are within the budget, so the text embedded is the content itself;
\* embed_text has the fit of a content of any length.
embed(content) == [of |-> content]

\* What the provider calls made for one item do: whether the existence lookup
\* answers, whether the chat completions answer and what the usefulness
\* filter and the refinement say, whether the embedding and the upsert
\* succeed, and whether the item's data raises where nothing catches it (a
\* missing key).
Outcomes ==
    [lookup_ok : BOOLEAN, llm_ok : BOOLEAN, useful : BOOLEAN, refined : Texts,
     embed_ok : BOOLEAN, upsert_ok : BOOLEAN, escape : BOOLEAN]

\* One outcome for each way the calls that are reached can go: a call that
\* is not reached (the upsert after a failed embedding, anything after the
\* item's data raised) is given as succeeding.
Reached(o) ==
    /\ o.escape => (o.llm_ok /\ o.embed_ok /\ o.upsert_ok)
    /\ ~o.embed_ok => o.upsert_ok

\* The outcomes that differ for a GitHub item, which has no usefulness filter
\* and no refinement, and for a Slack message, which has no lookup.
GithubOutcomes == {o \in Outcomes : Reached(o) /\ o.useful /\ o.refined = "v1"}

SlackOutcomes ==
    {o \in Outcomes :
        /\ Reached(o)
        /\ o.lookup_ok
        /\ (o.escape \/ ~o.llm_ok) => (o.useful /\ o.refined = "v1")
        /\ ~o.useful => (o.refined = "v1" /\ o.embed_ok /\ o.upsert_ok)}

\* document_exists(doc_id): qdrant.retrieve by id; any exception is False.
document_exists(d, doc_id, lookup_ok) ==
    IF lookup_ok THEN str_to_uuid(doc_id) \in DOMAIN d ELSE FALSE

\* enrich_with_llm(content): the content with the analysis appended, or the
\* content as it was when the completion fails.
enrich_with_llm(content, llm_ok) ==
    IF llm_ok THEN [content EXCEPT !.enriched = TRUE] ELSE content

\* refine_message(text): the completion's text, or the text as it was.
refine_message(text, o) == IF o.llm_ok THEN o.refined ELSE text

\* is_useful_message / is_useful_commit seen from the caller: the filter's
\* answer, True when the completion fails.
is_useful(o) == IF o.llm_ok THEN o.useful ELSE TRUE

\* An upsert_doc that lets the exception through.
upsert_doc_raises(d, doc_id, content, type, o) ==
    IF o.embed_ok /\ o.upsert_ok
    THEN [docs |-> [i \in DOMAIN d \cup {str_to_uuid(doc_id)} |->
                        IF i = str_to_uuid(doc_id)
                        THEN [vector |-> embed(content),
                              payload |-> [content |-> content, type |-> type]]
                        ELSE d[i]],
          log |-> <<"embed", "upsert">>, outcome |-> "stored", fault |-> "none"]
    ELSE [docs |-> d,
          log |-> IF o.embed_ok THEN <<"embed", "upsert">> ELSE <<"embed">>,
          outcome |-> "raised",
          fault |-> IF o.embed_ok THEN "upsert" ELSE "embed"]

\* upsert_doc(doc_id, content, metadata): embed, then upsert under the uuid of
\* the doc id; an exception from either is caught and the document skipped.
upsert_doc(d, doc_id, content, type, o) ==
    IF o.embed_ok /\ o.upsert_ok
    THEN [docs |-> [i \in DOMAIN d \cup {str_to_uuid(doc_id)} |->
                        IF i = str_to_uuid(doc_id)
                        THEN [vector |-> embed(content),
                              payload |-> [content |-> content, type |-> type]]
                        ELSE d[i]],
          log |-> <<"embed", "upsert">>, outcome |-> "stored", fault |-> "none"]
    ELSE [docs |-> d,
          log |-> IF o.embed_ok THEN <<"embed", "upsert">> ELSE <<"embed">>,
          outcome |-> "upsert failed",
          fault |-> IF o.embed_ok THEN "upsert" ELSE "embed"]

\* What processing one item did: the doc id it computed, what its existence
\* check said ("none" when none was made), the provider and store calls made
\* for it in order, how it ended, and which call of upsert_doc failed.
Done(d, item, exists, log, outcome, fault) ==
    [docs |-> d, item |-> item, exists |-> exists, log |-> log,
     outcome |-> outcome, fault |-> fault]

WithUpsert(item, exists, log, r) ==
    Done(r.docs, item, exists, log \o r.log, r.outcome, r.fault)

Exists(d, doc_id, o) ==
    IF ~o.lookup_ok THEN "error"
    ELSE IF document_exists(d, doc_id, TRUE) THEN "found" ELSE "missing"

\* ingest_readme(repo_name)
ProcessReadme(d, u, text, fetched, o) ==
    LET doc_id == <<"gh_readme", u, 0>>
        exists == Exists(d, doc_id, o)
    IN  IF document_exists(d, doc_id, o.lookup_ok)
        THEN Done(d, doc_id, exists, <<"document_exists">>, "skipped", "none")
        ELSE IF ~fetched
        THEN Done(d, doc_id, exists, <<"document_exists">>, "not fetched", "none")
        ELSE IF o.escape
        THEN Done(d, doc_id, exists, <<"document_exists">>, "not decoded", "none")
        ELSE WithUpsert(doc_id, exists, <<"document_exists">>,
                upsert_doc(d, doc_id, [text |-> text, enriched |-> FALSE],
                           "readme", o))

\* One turn of ingest_prs' loop.
ProcessPr(d, u, pr, o) ==
    LET doc_id == <<"gh_pr", u, pr.number>>
        exists == Exists(d, doc_id, o)
    IN  IF ~pr.merged
        THEN Done(d, NoDoc, "none", <<>>, "ignored", "none")
        ELSE IF document_exists(d, doc_id, o.lookup_ok)
        THEN Done(d, doc_id, exists, <<"document_exists">>, "skipped", "none")
        ELSE IF o.escape
        THEN Done(d, doc_id, exists, <<"document_exists">>, "raised", "none")
        ELSE WithUpsert(doc_id, exists, <<"document_exists", "enrich_with_llm">>,
                upsert_doc(d, doc_id,
                           enrich_with_llm([text |-> pr.text, enriched |-> FALSE],
                                           o.llm_ok),
                           "pr", o))

\* One turn of ingest_commits' loop over the batches.
ProcessBatch(d, u, batch, o) ==
    LET doc_id == <<"gh_commit", u, batch.index>>
        exists == Exists(d, doc_id, o)
    IN  IF document_exists(d, doc_id, o.lookup_ok)
        THEN Done(d, doc_id, exists, <<"document_exists">>, "skipped", "none")
        ELSE IF o.escape
        THEN Done(d, doc_id, exists, <<"document_exists">>, "raised", "none")
        ELSE WithUpsert(doc_id, exists, <<"document_exists", "enrich_with_llm">>,
                upsert_doc(d, doc_id,
                           enrich_with_llm([text |-> batch.text, enriched |-> FALSE],
                                           o.llm_ok),
                           "commit", o))

\* One turn of ingest_channel_messages' loop.  The existence check of this
\* loop is commented out in the source, so none is made.
ProcessMessage(d, u, msg, o) ==
    LET doc_id == <<"slack_msg", u, msg.ts>>
    IN  IF msg.short
        THEN Done(d, NoDoc, "none", <<>>, "ignored", "none")
        ELSE IF o.escape
        THEN Done(d, NoDoc, "none", <<>>, "raised", "none")
        ELSE IF ~is_useful(o)
        THEN Done(d, doc_id, "none", <<"is_useful_message">>, "filtered", "none")
        ELSE WithUpsert(doc_id, "none", <<"is_useful_message", "refine_message">>,
                upsert_doc(d, doc_id,
                           [text |-> refine_message(msg.text, o), enriched |-> FALSE],
                           "slack", o))

\* The lists a fetch can return.
SeqsUpTo(S, n) == UNION {[1..k -> S] : k \in 0..n}

PullRequests == [number : {1}, merged : BOOLEAN, text : {"v1"}]

Messages == [ts : {1}, short : BOOLEAN, text : {"v1"}]

BatchSize == 5

\* range(0, len(useful_commits), batch_size): one batch per started five.
Batches(useful) ==
    [i \in 1..((useful + BatchSize - 1) \div BatchSize) |->
        [index |-> i - 1, text |-> "v1"]]

\* ------------------------------------------------------------ ingestion runs

GithubSteps == {"readme", "prs", "commits"}

\* The run after processing one item with result r, left at `phase` with
\* `todo` still to do.
AfterItem(r, phase, todo) ==
    [run EXCEPT !.phase = phase, !.todo = todo, !.item = r.item,
                !.exists = r.exists, !.log = r.log, !.outcome = r.outcome,
                !.fault = r.fault]

\* The run at a step that processes no item.
NoItem(phase, todo) ==
    [run EXCEPT !.phase = phase, !.todo = todo, !.item = NoDoc,
                !.exists = "none", !.log = <<>>, !.outcome = "none",
                !.fault = "none"]

\* A run that ends at the exception.
Abort(next) == [next EXCEPT !.phase = "aborted", !.unit = run.unit]

\* main's `except Exception`: the warning is printed and the run goes on with
\* what follows the try statement.
Caught(next) == next

\* What follows a repository's commits, or a channel: the next one, or the
\* end of the run.
ToNextUnit(r, first) ==
    IF r.unit < MaxUnits
    THEN [r EXCEPT !.phase = first, !.unit = @ + 1]
    ELSE [r EXCEPT !.phase = "done"]

Attempt(r, step) == [r EXCEPT !.attempted = @ \cup {<<r.unit, step>>}]

Fail(r) == [r EXCEPT !.caught = TRUE]

StartGithub ==
    /\ run.phase \in {"idle", "done", "refused", "aborted"}
    /\ run.runs < MaxRuns
    /\ run' = [NoRun EXCEPT !.source = "github", !.phase = "readme", !.unit = 1,
                            !.runs = run.runs + 1]
    /\ UNCHANGED <<docs, upserted>>

\* main: ingest_readme(name)
IngestReadme(text, fetched, o) ==
    /\ run.phase = "readme"
    /\ LET r == ProcessReadme(docs, run.unit, text, fetched, o)
       IN  /\ docs' = r.docs
           /\ upserted' = IF r.outcome = "stored"
                          THEN upserted \cup {r.item} ELSE upserted
           /\ run' = Attempt(AfterItem(r, "prs", <<>>), "readme")

\* main: ingest_prs(name), up to its loop; the fetch of the list may raise.
IngestPrs(prs, fetched) ==
    /\ run.phase = "prs"
    /\ run' = IF fetched
              THEN Attempt(NoItem("pr_items", prs), "prs")
              ELSE Caught(Fail(Attempt(NoItem("commits", <<>>), "prs")))
    /\ UNCHANGED <<docs, upserted>>

IngestPr(o) ==
    /\ run.phase = "pr_items"
    /\ run.todo # <<>>
    /\ LET r == ProcessPr(docs, run.unit, Head(run.todo), o)
       IN  /\ docs' = r.docs
           /\ upserted' = IF r.outcome = "stored"
                          THEN upserted \cup {r.item} ELSE upserted
           /\ run' = IF r.outcome = "raised"
                     THEN Caught(Fail(AfterItem(r, "commits", <<>>)))
                     ELSE AfterItem(r, "pr_items", Tail(run.todo))

PrsDone ==
    /\ run.phase = "pr_items"
    /\ run.todo = <<>>
    /\ run' = NoItem("commits", <<>>)
    /\ UNCHANGED <<docs, upserted>>

\* main: ingest_commits(name), up to its loop over the batches: the fetch
\* (which returns when no branch answers or there are no commits) and the
\* usefulness filter over `commits` commits, `useful` of them kept.
IngestCommits(commits, useful, fetched, escape) ==
    /\ run.phase = "commits"
    /\ useful <= commits
    /\ run' =
        IF ~fetched \/ commits = 0
        THEN ToNextUnit(Attempt(NoItem("commits", <<>>), "commits"), "readme")
        ELSE IF escape
        THEN Caught(ToNextUnit(Fail(Attempt(NoItem("commits", <<>>), "commits")),
                               "readme"))
        ELSE Attempt([NoItem("batches", Batches(useful))
                        EXCEPT !.log = <<"is_useful_commit">>], "commits")
    /\ UNCHANGED <<docs, upserted>>

IngestBatch(o) ==
    /\ run.phase = "batches"
    /\ run.todo # <<>>
    /\ LET r == ProcessBatch(docs, run.unit, Head(run.todo), o)
       IN  /\ docs' = r.docs
           /\ upserted' = IF r.outcome = "stored"
                          THEN upserted \cup {r.item} ELSE upserted
           /\ run' = IF r.outcome = "raised"
                     THEN Caught(ToNextUnit(Fail(AfterItem(r, "batches", <<>>)),
                                            "readme"))
                     ELSE AfterItem(r, "batches", Tail(run.todo))

BatchesDone ==
    /\ run.phase = "batches"
    /\ run.todo = <<>>
    /\ run' = ToNextUnit(NoItem("batches", <<>>), "readme")
    /\ UNCHANGED <<docs, upserted>>

\* ingest_slack.main up to its loop: without a connection it returns.
StartSlack(connected) ==
    /\ run.phase \in {"idle", "done", "refused", "aborted"}
    /\ run.runs < MaxRuns
    /\ run' = [NoRun EXCEPT !.source = "slack",
                            !.phase = IF connected THEN "channel" ELSE "refused",
                            !.unit = IF connected THEN 1 ELSE 0,
                            !.runs = run.runs + 1]
    /\ UNCHANGED <<docs, upserted>>

\* main: ingest_channel_messages(...), up to its loop over the messages; a
\* failed fetch is caught inside and the function returns.
IngestChannel(msgs, fetched) ==
    /\ run.phase = "channel"
    /\ run' = IF fetched
              THEN Attempt(NoItem("messages", msgs), "channel")
              ELSE ToNextUnit(Attempt(NoItem("channel", <<>>), "channel"), "channel")
    /\ UNCHANGED <<docs, upserted>>

IngestMessage(o) ==
    /\ run.phase = "messages"
    /\ run.todo # <<>>
    /\ LET r == ProcessMessage(docs, run.unit, Head(run.todo), o)
       IN  /\ docs' = r.docs
           /\ upserted' = IF r.outcome = "stored"
                          THEN upserted \cup {r.item} ELSE upserted
           /\ run' = IF r.outcome = "raised"
                     THEN Caught(ToNextUnit(Fail(AfterItem(r, "messages", <<>>)),
                                            "channel"))
                     ELSE AfterItem(r, "messages", Tail(run.todo))

MessagesDone ==
    /\ run.phase = "messages"
    /\ run.todo = <<>>
    /\ run' = ToNextUnit(NoItem("messages", <<>>), "channel")
    /\ UNCHANGED <<docs, upserted>>

\* A step of either script, the calls made for an item going one of the
\* ways in `github` or `slack`.
IngestStep(github, slack) ==
    \/ /\ \/ StartGithub
          \/ \E fetched \in BOOLEAN, o \in github :
                IngestReadme("v1", fetched, o)
          \/ \E prs \in SeqsUpTo(PullRequests, MaxItems), fetched \in BOOLEAN :
                IngestPrs(prs, fetched)
          \/ \E o \in github : IngestPr(o)
          \/ PrsDone
          \/ \E commits \in 0..MaxItems, useful \in 0..MaxItems,
                fetched \in BOOLEAN, escape \in BOOLEAN :
                IngestCommits(commits, useful, fetched, escape)
          \/ \E o \in github : IngestBatch(o)
          \/ BatchesDone
          \/ \E connected \in BOOLEAN : StartSlack(connected)
          \/ \E msgs \in SeqsUpTo(Messages, MaxItems), fetched \in BOOLEAN :
                IngestChannel(msgs, fetched)
          \/ \E o \in slack : IngestMessage(o)
          \/ MessagesDone
       /\ UNCHANGED <<memoryVars, fit, scriptVars, verdict, backendVars>>

NextIngest == IngestStep(GithubOutcomes, SlackOutcomes)

SpecIngest == Init /\ [][NextIngest]_vars

\* One run of one script, from an empty collection.
NextOnce == NextIngest /\ run'.runs <= 1

SpecOnce == Init /\ [][NextOnce]_vars

\* One run of one script likewise, with completions that
\* answer and leave a text as it is; lookups, embeddings, upserts, fetches
\* and the items' data fail as before.  The script is a sequential program:
\* as long as a step of it can be taken, one is.
NextRun ==
    /\ IngestStep({o \in GithubOutcomes : o.llm_ok},
                  {o \in SlackOutcomes : o.llm_ok /\ o.refined = "v1"})
    /\ run'.runs <= 1

SpecRun == Init /\ [][NextRun]_vars /\ WF_vars(NextRun)

\* ------------------------------------------------------------------ backend

\* src/backend/services/__init__.py: the names the package binds.
ServicesExports == {"LLMService", "EmbeddingService", "VectorDBService"}

\* src/backend/main.py: the names it imports from the package.
MainImports == {"LLMService", "EmbeddingService", "VectorDBService", "MemoryService"}

Envs == [embedding : BOOLEAN, vector_db : BOOLEAN, llm : BOOLEAN, memory : BOOLEAN]

\* main.py's module body in environment env, the package binding `exports`:
\* the import raises on a name the package does not bind; a required service
\* whose constructor raises re-raises; an optional one leaves its global None.
LoadMain(exports, env) ==
    IF ~(MainImports \subseteq exports)
    THEN [phase |-> "import failed", env |-> env, llm_service |-> FALSE,
          memory_service |-> FALSE]
    ELSE IF ~env.embedding \/ ~env.vector_db
    THEN [phase |-> "init failed", env |-> env, llm_service |-> FALSE,
          memory_service |-> FALSE]
    ELSE [phase |-> "up", env |-> env, llm_service |-> env.llm,
          memory_service |-> env.memory]

\* python main.py
StartApp(env) ==
    /\ app.phase = "down"
    /\ app' = LoadMain(ServicesExports, env)
    /\ UNCHANGED <<memoryVars, fit, ingestVars, scriptVars, verdict, http>>

QBlank == "  "
QPadded == " deploy to production "
QShort == "d"

SearchQueries == {"", QBlank, QPadded, QAuth}

\* str.strip() on the queries sent.
Trimmed(query) ==
    CASE query = QBlank -> ""
      [] query = QPadded -> QDeploy
      [] OTHER -> query

\* len(q) < 2
Short(q) == q \in {"", QShort}

Endpoints == {"search", "suggestions", "history", "popular", "click"}

\* A request to a process that is not serving: the connection is refused.
Unanswered(endpoint, query, user_id) ==
    /\ app.phase # "up"
    /\ http' = [NoHttp EXCEPT !.endpoint = endpoint, !.query = query,
                              !.user_id = user_id]
    /\ UNCHANGED <<memoryVars, fit, ingestVars, scriptVars, verdict, app>>

NextBoot ==
    \/ \E env \in Envs : StartApp(env)
    \/ \E endpoint \in Endpoints, query \in SearchQueries, user_id \in {NoUser, "alice"} :
            Unanswered(endpoint, query, user_id)

SpecBoot == Init /\ [][NextBoot]_vars

\* llm_service.enrich_query(query): the model's rewording.
EnrichQuery(query) == IF query = QDeploy THEN QDeploy2 ELSE query

\* What the vector store finds for a search.
HitLists == {<<>>, <<"d1", "d2">>}

\* The calls of the search handler's memory step, in the order made; each
\* raises to the handler when its embedding or its store call fails.
MemoryFaults == {"get_similar_queries", "get_query_history", "save_query"}

SearchFaults == {"enrich", "embed", "vector", "summary"} \cup MemoryFaults

\* A memory step that hands back what it read when save_query raises.
MemoryStepKeepingReads(s, query, user_id, result_count, faults, now) ==
    IF faults \cap {"get_similar_queries", "get_query_history"} # {}
    THEN {[store |-> s, memory |-> NoMemory,
           raised |-> IF "get_similar_queries" \in faults
                      THEN "get_similar_queries" ELSE "get_query_history"]}
    ELSE {[store |-> IF "save_query" \in faults THEN s
                     ELSE Upsert(s, now, Embed(query),
                            BuildPayload([tenant |-> TENANT_ID, query |-> query,
                                          user_id |-> user_id,
                                          results_clicked |-> <<>>,
                                          sources_searched |-> <<>>,
                                          result_count |-> result_count,
                                          metadata |-> NoMetadata], now)),
           memory |-> [present |-> TRUE,
                       similar_queries |-> similar_queries,
                       recent_history |-> recent_history,
                       suggestions |-> [k \in DOMAIN similar_queries |->
                                          similar_queries[k].query]],
           raised |-> IF "save_query" \in faults THEN "save_query" ELSE "none"]
          : similar_queries \in GetSimilarQueries(s, TENANT_ID, query, 3,
                                                  user_id, 70),
            recent_history \in GetQueryHistory(s, TENANT_ID, user_id, 5, 0, now)}

\* A memory step that records the query first and reads afterwards.
MemoryStepSavingFirst(s, query, user_id, result_count, faults, now) ==
    IF faults \cap MemoryFaults # {}
    THEN {[store |-> s, memory |-> NoMemory,
           raised |-> CHOOSE f \in faults \cap MemoryFaults : TRUE]}
    ELSE LET after == Upsert(s, now, Embed(query),
                        BuildPayload([tenant |-> TENANT_ID, query |-> query,
                                      user_id |-> user_id,
                                      results_clicked |-> <<>>,
                                      sources_searched |-> <<>>,
                                      result_count |-> result_count,
                                      metadata |-> NoMetadata], now))
         IN  {[store |-> after,
               memory |-> [present |-> TRUE,
                           similar_queries |-> similar_queries,
                           recent_history |-> recent_history,
                           suggestions |-> [k \in DOMAIN similar_queries |->
                                              similar_queries[k].query]],
               raised |-> "none"]
              : similar_queries \in GetSimilarQueries(after, TENANT_ID, query, 3,
                                                      user_id, 70),
                recent_history \in GetQueryHistory(after, TENANT_ID, user_id, 5,
                                                   0, now)}

\* Step 6 of the search handler, one try block: get_similar_queries, then
\* get_query_history, then save_query, then the memory block built from the
\* two reads.  The first call that raises ends the block: memory stays None
\* and the calls after it are not made.
MemoryStep(s, query, user_id, result_count, faults, now) ==
    IF "get_similar_queries" \in faults
    THEN {[store |-> s, memory |-> NoMemory, raised |-> "get_similar_queries"]}
    ELSE IF "get_query_history" \in faults
    THEN {[store |-> s, memory |-> NoMemory, raised |-> "get_query_history"]}
    ELSE IF "save_query" \in faults
    THEN {[store |-> s, memory |-> NoMemory, raised |-> "save_query"]}
    ELSE {[store |-> Upsert(s, now, Embed(query),
                        BuildPayload([tenant |-> TENANT_ID, query |-> query,
                                      user_id |-> user_id,
                                      results_clicked |-> <<>>,
                                      sources_searched |-> <<>>,
                                      result_count |-> result_count,
                                      metadata |-> NoMetadata], now)),
           memory |-> [present |-> TRUE,
                       similar_queries |-> similar_queries,
                       recent_history |-> recent_history,
                       suggestions |-> [k \in DOMAIN similar_queries |->
                                          similar_queries[k].query]],
           raised |-> "none"]
          : similar_queries \in GetSimilarQueries(s, TENANT_ID, query, 3,
                                                  user_id, 70),
            recent_history \in GetQueryHistory(s, TENANT_ID, user_id, 5, 0, now)}

\* VectorDBService.search: the store's hits, or no hits when anything in it
\* raises.
VectorSearch(hits, raises) == IF raises THEN <<>> ELSE hits

Answer(endpoint, query, user_id, failed, status, body) ==
    [endpoint |-> endpoint, query |-> query, user_id |-> user_id,
     failed |-> failed, status |-> status, body |-> body]

\* POST /api/v1/search.  `faults` are the steps that fail if they are reached,
\* `hits` what the vector store would find.
Search(query, user_id, faults, hits) ==
    /\ app.phase = "up"
    /\ clock < MaxClock
    /\ clock' = clock + 1
    /\ LET original_query == Trimmed(query)
           enrich_failed == app.llm_service /\ "enrich" \in faults
           enriched_query == IF app.llm_service /\ ~enrich_failed
                             THEN EnrichQuery(original_query)
                             ELSE original_query
           vector_failed == "vector" \in faults
           vector_results == VectorSearch(hits, vector_failed)
           summary_failed == /\ app.llm_service
                             /\ "summary" \in faults
                             /\ vector_results # <<>>
           results == [k \in DOMAIN vector_results |->
                        [id |-> vector_results[k],
                         summary |-> IF app.llm_service /\ ~summary_failed
                                     THEN "summary" ELSE "None"]]
           failed == {f \in SearchFaults :
                        \/ f = "enrich" /\ enrich_failed
                        \/ f = "vector" /\ vector_failed
                        \/ f = "summary" /\ summary_failed}
           body == [NoBody EXCEPT !.results = results,
                                  !.enriched_query = enriched_query]
       IN  IF original_query = ""
           THEN /\ http' = Answer("search", query, user_id, {}, 400, NoBody)
                /\ store' = store
           ELSE IF "embed" \in faults
           THEN /\ http' = Answer("search", query, user_id,
                                  {f \in {"enrich"} : enrich_failed} \cup {"embed"},
                                  500, NoBody)
                /\ store' = store
           ELSE IF app.memory_service
           THEN \E r \in MemoryStep(store, original_query, user_id, Len(results),
                                    faults, clock') :
                /\ store' = r.store
                /\ http' = Answer("search", query, user_id,
                        failed \cup (IF r.raised = "none" THEN {}
                                     ELSE {"memory", r.raised}),
                        200, [body EXCEPT !.memory = r.memory])
           ELSE /\ http' = Answer("search", query, user_id, failed, 200, body)
                /\ store' = store
    /\ UNCHANGED <<pc, loc, saved, last, ret, fit, ingestVars, scriptVars, verdict, app>>

\* GET /api/v1/memory/suggestions
GetSuggestions(q, user_id, raises) ==
    /\ app.phase = "up"
    /\ IF ~app.memory_service \/ Short(q)
       THEN http' = Answer("suggestions", q, user_id, {}, 200, NoBody)
       ELSE IF raises
       THEN http' = Answer("suggestions", q, user_id, {"memory"}, 200, NoBody)
       ELSE \E similar \in GetSimilarQueries(store, TENANT_ID, q, 5, user_id, 60) :
                http' = Answer("suggestions", q, user_id, {}, 200,
                            [NoBody EXCEPT !.list =
                                [k \in DOMAIN similar |-> similar[k].query]])
    /\ UNCHANGED <<memoryVars, fit, ingestVars, scriptVars, verdict, app>>

\* GET /api/v1/memory/history
GetHistory(user_id, limit, raises) ==
    /\ app.phase = "up"
    /\ IF ~app.memory_service
       THEN http' = Answer("history", "", user_id, {}, 200, NoBody)
       ELSE IF raises
       THEN http' = Answer("history", "", user_id, {"memory"}, 200, NoBody)
       ELSE \E history \in GetQueryHistory(store, TENANT_ID, user_id, limit, 0, clock) :
                http' = Answer("history", "", user_id, {}, 200,
                            [NoBody EXCEPT !.list = history])
    /\ UNCHANGED <<memoryVars, fit, ingestVars, scriptVars, verdict, app>>

\* GET /api/v1/memory/popular
GetPopular(limit, days, raises) ==
    /\ app.phase = "up"
    /\ IF ~app.memory_service
       THEN http' = Answer("popular", "", NoUser, {}, 200, NoBody)
       ELSE IF raises
       THEN http' = Answer("popular", "", NoUser, {"memory"}, 200, NoBody)
       ELSE \E popular \in GetPopularQueries(store, TENANT_ID, limit, days, clock) :
                http' = Answer("popular", "", NoUser, {}, 200,
                            [NoBody EXCEPT !.list = popular])
    /\ UNCHANGED <<memoryVars, fit, ingestVars, scriptVars, verdict, app>>

\* POST /api/v1/memory/click
TrackClick(c, raises) ==
    /\ app.phase = "up"
    /\ IF ~app.memory_service
       THEN /\ http' = Answer("click", c.query, c.user_id, {}, 200,
                        [NoBody EXCEPT !.message = "Memory service not available"])
            /\ store' = store
       ELSE IF raises
       THEN /\ http' = Answer("click", c.query, c.user_id, {"memory"}, 200,
                        [NoBody EXCEPT !.message = "error"])
            /\ store' = store
       ELSE \E o \in ClickOutcomes(store, c) :
            /\ store' = IF o.write THEN SetPayload(store, o.id, o.payload) ELSE store
            /\ http' = Answer("click", c.query, c.user_id, {}, 200,
                        [NoBody EXCEPT !.message = "Click tracked"])
    /\ UNCHANGED <<clock, pc, loc, saved, last, ret, fit, ingestVars, scriptVars, verdict, app>>

\* A backend whose import of the services resolved, the package binding
\* every name main.py imports, and whose required services started.
InitServe ==
    /\ store = <<>>
    /\ clock = 0
    /\ pc = [p \in Procs |-> "idle"]
    /\ loc = [p \in Procs |-> NoLocals]
    /\ saved = 0
    /\ last = NoCall
    /\ ret = NoRead
    /\ fit = NoFit
    /\ docs = <<>>
    /\ upserted = {}
    /\ run = NoRun
    /\ verdict = NoVerdict
    /\ app \in {LoadMain(MainImports, env) : env \in Envs}
    /\ app.phase = "up"
    /\ http = NoHttp
    /\ setup = NoSetup
    /\ paging = NoPaging

NextServe ==
    \/ \E query \in SearchQueries, user_id \in {NoUser, "alice"},
          faults \in {f \in SUBSET SearchFaults :
                        Cardinality(f \cap MemoryFaults) <= 1},
          hits \in HitLists :
            Search(query, user_id, faults, hits)
    \/ \E q \in {QShort, QDeploy}, user_id \in {NoUser, "alice"}, raises \in BOOLEAN :
            GetSuggestions(q, user_id, raises)
    \/ \E user_id \in {NoUser, "alice"}, limit \in Limits, raises \in BOOLEAN :
            GetHistory(user_id, limit, raises)
    \/ \E limit \in Limits, days \in {0, 1}, raises \in BOOLEAN :
            GetPopular(limit, days, raises)
    \/ \E c \in {a \in ClickArgs : a.tenant = TENANT_ID}, raises \in BOOLEAN :
            TrackClick(c, raises)

SpecServe == InitServe /\ [][NextServe]_vars

\* ---------------------------------------------------------- specifications

\* Calls one at a time: a call starts only when no other is in flight, and at
\* least a tick after the previous clock reading.
Alone(p) == InFlight \subseteq {p}

Next ==
    \E p \in Procs :
        /\ Alone(p)
        /\ \/ \E a \in SaveArgs : SaveBegin(p, a, 1)
           \/ SaveUpsert(p)
           \/ \E c \in ClickArgs : ClickBegin(p, c)
           \/ ClickWrite(p)

Spec == Init /\ [][Next]_vars

\* Calls one at a time, get_similar_queries among them: a call starts when
\* the read before it has returned.
NextEmbed ==
    \/ ret = NoRead /\ Next
    \/ /\ InFlight = {}
       /\ \E u \in {NoUser, "alice"}, m \in {0, 70} :
                ReadSimilar(TENANT_ID, QDeploy, 1, u, m)
    \/ ReadReturn

SpecEmbed == Init /\ [][NextEmbed]_vars

\* Calls of concurrent callers, interleaved at every store call, the clock
\* advancing between any two readings.
NextRace ==
    \E p \in Procs :
        \/ \E a \in SaveArgs : SaveBegin(p, a, 1)
        \/ SaveUpsert(p)
        \/ \E c \in ClickArgs : ClickBegin(p, c)
        \/ ClickWrite(p)

SpecRace == Init /\ [][NextRace]_vars

\* The same, where a caller may also read the clock within the tick in which
\* another caller, still in flight, read it.
NextConc ==
    \E p \in Procs :
        \/ \E a \in SaveArgs : SaveBegin(p, a, 1)
        \/ \E a \in SaveArgs :
            /\ \E q \in Procs \ {p} : pc[q] = "save_upsert" /\ loc[q].id = clock
            /\ SaveBegin(p, a, 0)
        \/ SaveUpsert(p)
        \/ \E c \in ClickArgs : ClickBegin(p, c)
        \/ ClickWrite(p)

SpecConc == Init /\ [][NextConc]_vars

\* ------------------------------------------------------------------ claims

ResultsClicked(payload) == Get(payload, "results_clicked", <<>>)

ClickCount(payload) == Get(payload, "click_count", 0)

IsPrefix(s, t) == Len(s) <= Len(t) /\ \A i \in 1..Len(s) : s[i] = t[i]

\* A record is in the scope of (tenant, user_id): it carries the tenant, and
\* the user when one is given.
InScope(payload, tenant, user_id) ==
    /\ payload.tenant_id = tenant
    /\ user_id # NoUser => Get(payload, "user_id", NoUser) = user_id

\* A payload without its two click keys.
ExceptClicks(payload) ==
    [k \in DOMAIN payload \ {"results_clicked", "click_count"} |-> payload[k]]

AllIdle == \A p \in Procs : pc[p] = "idle"

\* C1: every stored record's click count (0 when absent) is the length of its
\* results_clicked list (empty when absent), after any calls with any
\* arguments.
C1_ClickCountIsLength ==
    \A i \in DOMAIN store :
        ClickCount(store[i].payload) = Len(ResultsClicked(store[i].payload))

\* C2: no stored record's results_clicked holds a result id twice, whatever
\* list save_query was given.
C2_NoDuplicateClicks ==
    \A i \in DOMAIN store :
        \A r \in Range(ResultsClicked(store[i].payload)) :
            Count(r, ResultsClicked(store[i].payload)) = 1

\* C3: once update_query_click(q, r, u) has returned and nothing else has run,
\* the same call again writes nothing, and the record it targets holds r
\* exactly once.
C3_ClickTwiceIsIdempotent ==
    (AllIdle /\ last.op = "update_query_click") =>
        \A o \in ClickOutcomes(store, last.args) :
            /\ ~o.write
            /\ o.id # 0 =>
                Count(last.args.result_id, ResultsClicked(store[o.id].payload)) = 1

\* C8: every save_query call that returned added one record of its own: the
\* collection, empty at first, holds as many records as calls returned.
C8_EverySaveAddsARecord == Cardinality(DOMAIN store) = saved

\* C9: no step deletes a record, and every record's results_clicked before
\* the step is a prefix of its results_clicked after it.
C9_AppendOnly ==
    [][\A i \in DOMAIN store :
            /\ i \in DOMAIN store'
            /\ IsPrefix(ResultsClicked(store[i].payload),
                        ResultsClicked(store'[i].payload))]_vars

\* C10: update_query_click writes nothing before its set_payload; its
\* set_payload changes one record at most, a nearest one among those in the
\* call's scope, and of it only results_clicked and click_count; with no record
\* in scope the call returns without a write.
C10_ClickFrameStep ==
    /\ \A p \in Procs : (pc[p] = "idle" /\ pc'[p] = "click_write") => store' = store
    /\ \A p \in Procs : (pc[p] = "click_write" /\ pc'[p] = "idle") =>
        LET c == loc[p].args
            id == loc[p].id
        IN  /\ DOMAIN store' = DOMAIN store
            /\ \A i \in DOMAIN store \ {id} : store'[i] = store[i]
            /\ id \in DOMAIN store
            /\ InScope(store[id].payload, c.tenant, c.user_id)
            /\ \A j \in DOMAIN store :
                InScope(store[j].payload, c.tenant, c.user_id) =>
                    Score(store[id].vector, Embed(c.query))
                        >= Score(store[j].vector, Embed(c.query))
            /\ store'[id].vector = store[id].vector
            /\ ExceptClicks(store'[id].payload) = ExceptClicks(store[id].payload)
    /\ \A c \in ClickArgs :
        (\A j \in DOMAIN store : ~InScope(store[j].payload, c.tenant, c.user_id)) =>
            /\ \A o \in ClickOutcomes(store, c) : o.id = 0 /\ ~o.write
            /\ (last' = [op |-> "update_query_click", args |-> c] /\ pc' = pc)
                    => store' = store

C10_ClickFrame == [][C10_ClickFrameStep]_vars

\* A click has been written to one of two stored records, the other being out
\* of the call's scope.
C10_Witness ==
    /\ AllIdle
    /\ last.op = "update_query_click"
    /\ \E i, j \in DOMAIN store :
        /\ i # j
        /\ InScope(store[i].payload, last.args.tenant, last.args.user_id)
        /\ ~InScope(store[j].payload, last.args.tenant, last.args.user_id)
        /\ ResultsClicked(store[i].payload) = <<last.args.result_id>>

\* C11: a save_query call that returns has inserted exactly one record, under
\* a new id, and left every other record as it was; a call (save_query,
\* get_similar_queries, update_query_click) whose embedding fails ends in the
\* exception and changes no record; nothing but a save_query's upsert adds a
\* record.
C11_SaveOrRaiseStep ==
    /\ \A p \in Procs : (pc[p] = "save_upsert" /\ pc'[p] = "idle") =>
        /\ last'.op = "save_query"
        /\ saved' = saved + 1
        /\ loc[p].id \notin DOMAIN store
        /\ DOMAIN store' = DOMAIN store \cup {loc[p].id}
        /\ \A i \in DOMAIN store : store'[i] = store[i]
    /\ (last'.op = "raised" /\ pc' = pc /\ ret' = ret) =>
        /\ store' = store
        /\ saved' = saved
    /\ DOMAIN store' # DOMAIN store =>
        \E p \in Procs : pc[p] = "save_upsert" /\ pc'[p] = "idle"

C11_SaveOrRaise == [][C11_SaveOrRaiseStep]_vars

\* A call has ended in the exception of a failed embedding after two saves,
\* and both records are stored.
C11_Witness ==
    /\ last.op = "raised"
    /\ AllIdle
    /\ saved = 2
    /\ Cardinality(DOMAIN store) = 2

\* The records a history or popularity read is about: those of the tenant
\* saved within the window (days_back = 0: no window).
InWindow(timestamp, days_back) ==
    days_back = 0 \/ timestamp > clock - days_back * Day

RECURSIVE SumOfClicks(_)
SumOfClicks(ids) ==
    IF ids = {} THEN 0
    ELSE LET i == CHOOSE x \in ids : TRUE
         IN  ClickCount(store[i].payload) + SumOfClicks(ids \ {i})

Considered(tenant, days_back, query) ==
    {i \in DOMAIN store :
        /\ store[i].payload.tenant_id = tenant
        /\ InWindow(store[i].payload.timestamp, days_back)
        /\ store[i].payload.query = query}

\* C4: whatever the text and the token budget, and whatever the chat
\* completion does, the text chunk_text returns is estimated at no more than
\* the budget.
C4_OutputFitsBudget ==
    fit.op = "chunk_text" => estimate_tokens(fit.result) <= fit.max_tokens

\* C5: get_popular_queries returns at most `limit` aggregates, one per query
\* text, most popular first; an aggregate's count is the number of the
\* tenant's in-window records with its text, its total_clicks the sum of their
\* click counts, its score count * (1 + total_clicks / 10) (here in tenths); a
\* text left out scores no more than any text returned.
C5_PopularRanking ==
    ret.op = "get_popular_queries" =>
        LET rows == ret.rows
            a == ret.args
            texts == {store[i].payload.query : i \in DOMAIN store}
            Count_(q) == Cardinality(Considered(a.tenant, a.days_back, q))
            Clicks(q) == SumOfClicks(Considered(a.tenant, a.days_back, q))
            TrueScore(q) == Count_(q) * (10 + Clicks(q))
            present == {q \in texts : Count_(q) > 0}
        IN  /\ Len(rows) = Min(a.limit, Cardinality(present))
            /\ \A i, j \in DOMAIN rows :
                /\ i # j => rows[i].query # rows[j].query
                /\ i < j => rows[i].popularity_score >= rows[j].popularity_score
            /\ \A i \in DOMAIN rows :
                /\ rows[i].query \in present
                /\ rows[i].count = Count_(rows[i].query)
                /\ rows[i].total_clicks = Clicks(rows[i].query)
                /\ rows[i].popularity_score = TrueScore(rows[i].query)
                /\ \A q \in present \ {rows[k].query : k \in DOMAIN rows} :
                        TrueScore(q) <= rows[i].popularity_score

\* The query saved twice with 30 clicks in total is ranked above the query
\* saved five times with none.
C5_Witness ==
    /\ ret.op = "get_popular_queries"
    /\ store = ScenarioStore
    /\ Len(ret.rows) = 2
    /\ ret.rows[1].query = QAuth
    /\ ret.rows[1].count = 2 /\ ret.rows[1].total_clicks = 30
    /\ ret.rows[2].query = QDeploy
    /\ ret.rows[2].count = 5 /\ ret.rows[2].total_clicks = 0

\* C6: get_similar_queries returns at most `limit` rows, best score first,
\* each the row of a stored record whose score against the query is at least
\* min_score and which carries the caller's tenant id and, when user_id is
\* given, that user id.
C6_SimilarInScope ==
    ret.op = "get_similar_queries" =>
        LET rows == ret.rows
            a == ret.args
        IN  /\ Len(rows) <= a.limit
            /\ \A i, j \in DOMAIN rows : i < j =>
                /\ rows[i].score >= rows[j].score
                /\ rows[i].id # rows[j].id
            /\ \A i \in DOMAIN rows :
                /\ rows[i].id \in DOMAIN store
                /\ rows[i].score = Score(store[rows[i].id].vector, Embed(a.query))
                /\ rows[i].score >= a.min_score
                /\ store[rows[i].id].payload.tenant_id = a.tenant
                /\ a.user_id # NoUser =>
                    /\ "user_id" \in DOMAIN store[rows[i].id].payload
                    /\ store[rows[i].id].payload.user_id = a.user_id
                    /\ rows[i].user_id = a.user_id

\* A row was returned for a user while the store also held a record of another
\* tenant that scores at least min_score and a record of the tenant, not of
\* that user, that scores below it.
C6_Witness ==
    /\ ret.op = "get_similar_queries"
    /\ Len(ret.rows) >= 1
    /\ ret.args.user_id # NoUser
    /\ ret.args.min_score > 0
    /\ \E i, j \in DOMAIN store :
        /\ store[i].payload.tenant_id # ret.args.tenant
        /\ Score(store[i].vector, Embed(ret.args.query)) >= ret.args.min_score
        /\ store[j].payload.tenant_id = ret.args.tenant
        /\ Get(store[j].payload, "user_id", NoUser) # ret.args.user_id
        /\ Score(store[j].vector, Embed(ret.args.query)) < ret.args.min_score

ItemStep == run' # run /\ run'.item # NoDoc

\* The calls to a provider that cost: chat completions and embeddings.
Expensive ==
    {"enrich_with_llm", "is_useful_commit", "is_useful_message", "refine_message",
     "embed"}

\* C12: ingesting an item whose doc id already has a stored record is a no-op
\* unless the existence lookup failed: the item is skipped and the documents
\* collection, the record of that doc id included, stays as it was; at the
\* README, the pull requests, the commit batches and the Slack messages.
C12_ReingestIsNoOpStep ==
    (/\ ItemStep
     /\ str_to_uuid(run'.item) \in DOMAIN docs
     /\ run'.exists # "error") =>
        docs' = docs

C12_ReingestIsNoOp == [][C12_ReingestIsNoOpStep]_vars

\* C13: whenever a chat completion or an embedding was called for an item,
\* document_exists was evaluated first, and when it answered true nothing
\* else was called for the item.
C13_ExistsBeforeExpensive ==
    /\ (\E k \in DOMAIN run.log : run.log[k] \in Expensive) =>
            run.log[1] = "document_exists"
    /\ run.exists = "found" => run.log = <<"document_exists">>


\* C14: document_exists answers true for exactly the doc ids upsert_doc has
\* stored a record for, false for every other, and false (never an exception)
\* when the lookup fails; a check that answered "found" was about a stored
\* doc id.
C14_ExistsIffStored ==
    /\ \A doc_id \in DocIds :
        /\ document_exists(docs, doc_id, TRUE) = (doc_id \in upserted)
        /\ document_exists(docs, doc_id, FALSE) = FALSE
    /\ run.exists = "found" => run.item \in upserted
    /\ run.exists = "error" => run.outcome \in {"stored", "upsert failed",
                                                "not fetched", "not decoded",
                                                "raised"}

\* A lookup failed for a doc id that is stored, so the item was taken for
\* new, while other doc ids have never been stored.
C14_Witness ==
    /\ run.exists = "error"
    /\ run.item \in upserted
    /\ upserted # DocIds
    /\ run.outcome = "stored"

\* A run is not ended by an exception, and a run at its completion step has
\* attempted every step of every repository, or every channel.
RunNotAborted ==
    /\ run.phase # "aborted"
    /\ (run.phase = "done" /\ run.source = "github") =>
            run.attempted = Units \X GithubSteps
    /\ (run.phase = "done" /\ run.source = "slack") =>
            run.attempted = Units \X {"channel"}

\* C16: a run is never ended by a failure inside one repository or channel:
\* an exception that reaches main is caught there, every started run reaches
\* its completion step, and it has then attempted the README, the pull
\* requests and the commits of every repository, or every channel.
C16_RunCompletes ==
    /\ []RunNotAborted
    /\ (run.phase \notin {"idle", "done", "refused"}) ~> (run.phase = "done")

\* A GitHub run completed although an exception reached main on the way.
C16_Witness ==
    /\ run.source = "github"
    /\ run.phase = "done"
    /\ run.caught
    /\ run.attempted = Units \X GithubSteps

\* C17: when embedding or upserting one item fails, upsert_doc catches it:
\* the collection is as it was, no exception reaches the caller, and the
\* caller goes on with what follows the item.
C17_UpsertFailureSkipsStep ==
    (ItemStep /\ run'.fault # "none") =>
        /\ docs' = docs
        /\ upserted' = upserted
        /\ run'.outcome = "upsert failed"
        /\ run'.caught = run.caught
        /\ IF run.phase = "readme"
           THEN run'.phase = "prs"
           ELSE run'.phase = run.phase /\ run'.todo = Tail(run.todo)

C17_UpsertFailureSkips == [][C17_UpsertFailureSkipsStep]_vars

\* The upsert of an item failed with documents stored and items still to do.
C17_Witness ==
    /\ run.fault = "upsert"
    /\ run.todo # <<>>
    /\ docs # <<>>


\* The claim as the specification words it: the literal NOT_USEFUL decides
\* first, then the literal USEFUL, then the call site's default.
C15_LiteralTokens ==
    verdict.op # "none" =>
        verdict.result =
            IF ~verdict.answered THEN TRUE
            ELSE IF Contains(verdict.response, NOT_USEFUL) THEN FALSE
            ELSE IF Contains(verdict.response, USEFUL) THEN TRUE
            ELSE verdict.op = "is_useful_commit"

\* C15: the usefulness filter's answer is this function of the completion,
\* read without regard to case: a response containing NOT_USEFUL or
\* NOT USEFUL is false even though USEFUL appears in it; otherwise a response
\* containing USEFUL is true; any other response is true for a commit and
\* false for a Slack message; a failed completion is true for both.
C15_UsefulnessDecision ==
    verdict.op # "none" =>
        LET text == upper(verdict.response)
            negative == Contains(text, NOT_USEFUL) \/ Contains(text, NOT_SPACE_USEFUL)
            positive == Contains(text, USEFUL)
        IN  /\ ~verdict.answered => verdict.result
            /\ (verdict.answered /\ negative) => ~verdict.result
            /\ (verdict.answered /\ ~negative /\ positive) => verdict.result
            /\ (verdict.answered /\ ~positive) =>
                    (verdict.result <=> verdict.op = "is_useful_commit")

\* A Slack message was excluded on a response that says "not useful" with a
\* space and in lower case.
C15_Witness ==
    /\ verdict.op = "is_useful_message"
    /\ verdict.answered
    /\ verdict.response = <<"not", " ", "useful">>
    /\ ~verdict.result


\* --------------------------------------------------------- claims on the backend

\* C18: a search request in which the embedding step or the vector-store
\* search step failed is not answered with success: a response of status 200
\* comes only from requests in which nothing but enrichment, a summary or the
\* memory step failed.
C18_RequiredFailureIsError ==
    (http.endpoint = "search" /\ http.failed \cap {"embed", "vector"} # {}) =>
        http.status \in {400, 500, 503}

\* What the search handler does once it runs: a failed enrichment leaves the
\* trimmed query as the enriched one, and a failed or absent memory service
\* leaves memory null, in a response of status 200 with the results.
ServeDegrades ==
    (/\ http.endpoint = "search"
     /\ http.failed # {}
     /\ http.failed \subseteq {"enrich", "summary", "memory"} \cup MemoryFaults) =>
        /\ http.status = 200
        /\ "enrich" \in http.failed =>
                http.body.enriched_query = Trimmed(http.query)
        /\ ("memory" \in http.failed \/ ~app.memory_service) =>
                http.body.memory = NoMemory

C20_OnlyRequiredIsFatal ==
    app.phase # "down" =>
        /\ app.phase = "up" <=> (app.env.embedding /\ app.env.vector_db)
        /\ app.phase = "up" =>
                /\ app.llm_service = app.env.llm
                /\ app.memory_service = app.env.memory


\* ------------------------------------------------------ ensure_collection
\* Every ensure_collection reads the list of collections and, when its name is
\* not in it, creates the collection: two calls to the store, between which
\* another caller's call can land.  The store is taken to answer.

\* The collection a caller ensures.
CollectionOf(c) ==
    IF c \in {"ingest.py", "ingest_slack.py"}
    THEN COLLECTION_NAME ELSE MEMORY_COLLECTION_NAME

\* memory.py and memory_service.py wrap the whole body in try/except and print;
\* ingest.py and ingest_slack.py have no handler.
Guarded(c) == c \in {"memory.py", "memory_service.py"}

\* qdrant.create_collection: a new empty collection, or an error that leaves
\* the collection of that name and its points as they are.
create_collection(exists, points, name) ==
    IF name \in exists
    THEN [ok |-> FALSE, exists |-> exists, points |-> points]
    ELSE [ok |-> TRUE, exists |-> exists \cup {name}, points |-> <<>>]

\* The points of a collection.
PointsOf(name) == IF name = COLLECTION_NAME THEN docs ELSE store

\* get_collections and the membership test; a collection found ends the call.
EnsureCheck(c) ==
    /\ setup.pc[c] = "idle"
    /\ LET found == CollectionOf(c) \in setup.exists
       IN  setup' = [setup EXCEPT !.pc[c] = IF found THEN "returned" ELSE "creating",
                                  !.seen[c] = found,
                                  !.raced[c] = FALSE]
    /\ UNCHANGED <<memoryVars, fit, ingestVars, paging, verdict, backendVars>>

\* The creation after a list without the name.  memory.py embeds a sample text
\* first, and its handler swallows a failure of that or of the creation.
EnsureCreate(c, embed_ok) ==
    /\ setup.pc[c] = "creating"
    /\ LET name == CollectionOf(c)
           r == create_collection(setup.exists, PointsOf(name), name)
       IN  IF Guarded(c) /\ ~embed_ok
           THEN /\ setup' = [setup EXCEPT !.pc[c] = "returned"]
                /\ UNCHANGED <<store, docs>>
           ELSE /\ setup' = [setup EXCEPT
                                !.exists = r.exists,
                                !.raced[c] = ~r.ok,
                                !.pc[c] = IF r.ok \/ Guarded(c)
                                          THEN "returned" ELSE "raised"]
                /\ docs' = IF name = COLLECTION_NAME THEN r.points ELSE docs
                /\ store' = IF name = MEMORY_COLLECTION_NAME THEN r.points ELSE store
    /\ UNCHANGED <<clock, pc, loc, saved, last, ret, fit, upserted, run, paging,
                   verdict, backendVars>>

\* The caller goes on (or its script has ended with the traceback) and may
\* call again.
EnsureDone(c) ==
    /\ setup.pc[c] \in {"returned", "raised"}
    /\ setup' = [setup EXCEPT !.pc[c] = "idle"]
    /\ UNCHANGED <<memoryVars, fit, ingestVars, paging, verdict, backendVars>>

\* A record stored in a collection that exists: a document or a saved query.
StoreRecord(name, text) ==
    /\ name \in setup.exists
    /\ docs' = IF name = COLLECTION_NAME
               THEN Upsert(docs, str_to_uuid(<<"readme", 1>>), embed(text),
                           [content |-> text, type |-> "readme"])
               ELSE docs
    /\ store' = IF name = MEMORY_COLLECTION_NAME
                THEN Upsert(store, 1, Embed(text), [query |-> text])
                ELSE store
    /\ UNCHANGED <<clock, pc, loc, saved, last, ret, fit, upserted, run,
                   scriptVars, verdict, backendVars>>

NextSetup ==
    \/ \E c \in Callers : EnsureCheck(c)
    \/ \E c \in Callers, embed_ok \in BOOLEAN : EnsureCreate(c, embed_ok)
    \/ \E c \in Callers : EnsureDone(c)
    \/ \E name \in {COLLECTION_NAME, MEMORY_COLLECTION_NAME}, text \in Texts :
          StoreRecord(name, text)

SpecSetup == Init /\ [][NextSetup]_vars

\* A step of ensure_collection.
EnsureStep == \E c \in Callers, embed_ok \in BOOLEAN :
    EnsureCheck(c) \/ EnsureCreate(c, embed_ok)

\* What the store's creation semantics and the handlers give every caller: a
\* collection that exists stays, no step of ensure_collection changes the
\* points of a collection that exists, and a call that found the collection in
\* the list returns without an error.
EnsureKeepsRecords ==
    [][EnsureStep =>
         /\ setup.exists \subseteq setup'.exists
         /\ (COLLECTION_NAME \in setup.exists => docs' = docs)
         /\ (MEMORY_COLLECTION_NAME \in setup.exists => store' = store)]_vars

EnsureFoundReturns ==
    \A c \in Callers : setup.seen[c] => setup.pc[c] # "raised"

\* C21: ensure_collection is safe to call repeatedly and from concurrent
\* callers of the shared store: no call ends in an error raised to its caller
\* (and none re-creates a collection or touches its records, which
\* EnsureKeepsRecords states).
C21_NoCallerRaises ==
    \A c \in Callers : setup.pc[c] # "raised"


\* ------------------------------------------------- concurrent click updates
\* The list a call in flight read from the record: what it is about to write,
\* less the result id it appended.
ListRead(p) ==
    LET clicked == ResultsClicked(loc[p].payload)
    IN  SubSeq(clicked, 1, Len(clicked) - 1)

\* One query saved, then clicks on it from both callers at once.
NextClicks ==
    \E p \in Procs :
        \/ InFlight = {} /\ saved = 0 /\ \E a \in SaveArgs : SaveBegin(p, a, 1)
        \/ SaveUpsert(p)
        \/ \E c \in ClickArgs : ClickBegin(p, c)
        \/ ClickWrite(p)

SpecClicks == Init /\ [][NextClicks]_vars

\* C22: two update_query_click calls on one record race unguarded.  The write
\* of a call stores the list that call read plus its own result id, whatever
\* the record holds by then: no lock keeps a second call from reading while
\* the first is between its read and its write, and no version check stops
\* the late write, so a result id appended in between is gone after it.
C22_LateWriteDropsClicks ==
    [][\A p \in Procs :
          (pc[p] = "click_write" /\ pc'[p] = "idle" /\ loc[p].id \in DOMAIN store)
          => /\ ResultsClicked(store'[loc[p].id].payload)
                    = Append(ListRead(p), loc[p].args.result_id)
             /\ \A r \in Range(ResultsClicked(store[loc[p].id].payload)) :
                    r \notin Range(ListRead(p)) /\ r # loc[p].args.result_id
                    => r \notin Range(ResultsClicked(store'[loc[p].id].payload))]_vars

\* Both calls read the record with no click in it; the call for one result id
\* has completed and its id is stored, the other call is about to write a list
\* holding its own id only.
C22_Witness ==
    \E p \in Procs :
        /\ pc[p] = "click_write"
        /\ \A q \in Procs \ {p} : pc[q] = "idle"
        /\ loc[p].id \in DOMAIN store
        /\ ListRead(p) = <<>>
        /\ last.op = "update_query_click"
        /\ last.args.result_id # loc[p].args.result_id
        /\ ResultsClicked(store[loc[p].id].payload) = <<last.args.result_id>>


\* ------------------------------------------------------- order of the stages
\* The calls made for the item processed last, in the order made, are in
\* run.log.  The token-budget fit is chunk_text, the first statement of embed;
\* the enrichment is enrich_with_llm (GitHub) or refine_message (Slack); the
\* dedup check is document_exists.
Filters == {"is_useful_commit", "is_useful_message"}

Enrichments == {"enrich_with_llm", "refine_message"}

Earlier(log, i, stages) == \E j \in 1..(i - 1) : log[j] \in stages

\* C23: the stages of an item run in the order filter, fit, enrichment, dedup
\* check, embed and store: a call that enriches the item comes after its fit,
\* and its dedup check comes after its filter, its fit and its enrichment.
C23_StagesInOrder ==
    \A i \in 1..Len(run.log) :
        /\ run.log[i] \in Enrichments => Earlier(run.log, i, {"embed"})
        /\ run.log[i] = "document_exists"
              => /\ Earlier(run.log, i, Filters)
                 /\ Earlier(run.log, i, {"embed"})
                 /\ Earlier(run.log, i, Enrichments)


\* ------------------------------------------------- Slack history, by pages
\* ingest_channel_messages fetches the channel's history in a while loop, one
\* conversations.history request per iteration, inside one try; the loop over
\* the messages comes after it.

\* What Slack answers to one request of `limit` messages: an error (slack_get
\* raises), or at most `limit` messages, has_more and a next cursor.
PageResponses(limit) ==
    [ok : BOOLEAN, messages : SeqsUpTo(Messages, limit), has_more : BOOLEAN,
     next_cursor : {"", "c"}]

\* An iteration that keeps all it accumulated, beyond max_messages too.
NextPageUntrimmed(p, resp) ==
    LET all == p.all_messages \o resp.messages
        asked == [p EXCEPT !.requests = @ + 1]
    IN  IF ~resp.ok
        THEN [asked EXCEPT !.state = "error", !.all_messages = <<>>,
                           !.discarded = Len(p.all_messages)]
        ELSE IF Len(all) >= p.max_messages \/ ~resp.has_more \/ resp.next_cursor = ""
        THEN [asked EXCEPT !.state = "fetched", !.all_messages = all,
                           !.has_more = resp.has_more,
                           !.next_cursor = resp.next_cursor]
        ELSE [asked EXCEPT !.all_messages = all, !.has_more = TRUE,
                           !.next_cursor = resp.next_cursor,
                           !.cursor = resp.next_cursor, !.page = @ + 1]

\* An iteration whose failed request ends the fetch with the pages it has.
NextPageKeeping(p, resp) ==
    LET all == p.all_messages \o resp.messages
        asked == [p EXCEPT !.requests = @ + 1]
    IN  IF ~resp.ok
        THEN [asked EXCEPT !.state = IF p.all_messages = <<>>
                                     THEN "error" ELSE "fetched",
                           !.failed = @ \cup {run.unit},
                           !.discarded = 0]
        ELSE IF Len(all) >= p.max_messages
        THEN [asked EXCEPT !.state = "fetched",
                           !.all_messages = Take(all, p.max_messages),
                           !.has_more = resp.has_more,
                           !.next_cursor = resp.next_cursor]
        ELSE IF ~resp.has_more \/ resp.next_cursor = ""
        THEN [asked EXCEPT !.state = "fetched", !.all_messages = all,
                           !.has_more = resp.has_more,
                           !.next_cursor = resp.next_cursor]
        ELSE [asked EXCEPT !.all_messages = all, !.has_more = TRUE,
                           !.next_cursor = resp.next_cursor,
                           !.cursor = resp.next_cursor, !.page = @ + 1]

\* One iteration of the while loop: the request with the cursor at hand, then
\* the three exits in the code's order (the maximum reached and the list
\* trimmed, no more messages, no next cursor), else the next page.  A request
\* that raises leaves the function through `except ... return`: no message is
\* kept.
NextPage(p, resp) ==
    LET all == p.all_messages \o resp.messages
        asked == [p EXCEPT !.requests = @ + 1]
    IN  IF ~resp.ok
        THEN [asked EXCEPT !.state = "error", !.all_messages = <<>>,
                           !.discarded = Len(p.all_messages)]
        ELSE IF Len(all) >= p.max_messages
        THEN [asked EXCEPT !.state = "fetched",
                           !.all_messages = Take(all, p.max_messages),
                           !.has_more = resp.has_more,
                           !.next_cursor = resp.next_cursor]
        ELSE IF ~resp.has_more \/ resp.next_cursor = ""
        THEN [asked EXCEPT !.state = "fetched", !.all_messages = all,
                           !.has_more = resp.has_more,
                           !.next_cursor = resp.next_cursor]
        ELSE [asked EXCEPT !.all_messages = all, !.has_more = TRUE,
                           !.next_cursor = resp.next_cursor,
                           !.cursor = resp.next_cursor, !.page = @ + 1]

\* ingest_channel_messages up to the head of the while loop, which a
\* max_messages of 0 does not enter.
StartChannel(limit, max_messages) ==
    /\ run.phase = "channel"
    /\ paging.state = "idle"
    /\ paging' = [NoPaging EXCEPT
                     !.state = IF 0 < max_messages THEN "fetching" ELSE "fetched",
                     !.limit = limit, !.max_messages = max_messages,
                     !.failed = paging.failed]
    /\ UNCHANGED <<memoryVars, fit, ingestVars, setup, verdict, backendVars>>

\* One conversations.history request and what the loop does with the answer.
\* The last page Slack has says so.
FetchPage(resp) ==
    /\ run.phase = "channel"
    /\ paging.state = "fetching"
    /\ paging.requests < MaxPages
    /\ paging.requests + 1 = MaxPages => (~resp.ok \/ ~resp.has_more)
    /\ LET next == NextPage(paging, resp)
       IN  IF next.state = "error"
           THEN /\ paging' = [next EXCEPT !.state = "idle",
                                          !.failed = @ \cup {run.unit}]
                /\ run' = ToNextUnit(Attempt(NoItem("channel", <<>>), "channel"),
                                     "channel")
           ELSE /\ paging' = next
                /\ UNCHANGED run
    /\ UNCHANGED <<memoryVars, fit, docs, upserted, setup, verdict, backendVars>>

\* messages = all_messages: the loop over the messages starts.
HandOver ==
    /\ run.phase = "channel"
    /\ paging.state = "fetched"
    /\ run' = Attempt(NoItem("messages", paging.all_messages), "channel")
    /\ paging' = [paging EXCEPT !.state = "idle"]
    /\ UNCHANGED <<memoryVars, fit, docs, upserted, setup, verdict, backendVars>>

\* One run of ingest_slack.py with each channel's history fetched by pages.
NextPages ==
    /\ \/ /\ \/ \E connected \in BOOLEAN : StartSlack(connected)
             \/ \E o \in {s \in SlackOutcomes : s.llm_ok /\ s.refined = "v1"} :
                   IngestMessage(o)
             \/ MessagesDone
          /\ UNCHANGED <<memoryVars, fit, scriptVars, verdict, backendVars>>
       \/ \E limit \in 1..MaxItems, max_messages \in 0..MaxMessages :
             StartChannel(limit, max_messages)
       \/ \E resp \in PageResponses(paging.limit) : FetchPage(resp)
       \/ HandOver
    /\ run'.runs <= 1

SpecPages == Init /\ [][NextPages]_vars

\* A request of a page of the history.
Requested == paging'.requests = paging.requests + 1

\* C24: a page is requested only while fewer than max_messages messages are
\* accumulated and, after the first page, the page before announced more
\* messages and gave a cursor; the fetch ends only when one of those fails;
\* and the messages handed to the loop over the messages are max_messages at
\* most.
C24_PaginationStep ==
    /\ Requested =>
          /\ Len(paging.all_messages) < paging.max_messages
          /\ paging.requests > 0 => (paging.has_more /\ paging.next_cursor # "")
    /\ paging'.state = "fetched" =>
          \/ Len(paging'.all_messages) >= paging'.max_messages
          \/ ~paging'.has_more
          \/ paging'.next_cursor = ""
    /\ (paging.state = "fetched" /\ run'.phase = "messages") =>
          /\ run'.todo = paging.all_messages
          /\ Len(run'.todo) <= paging.max_messages

C24_Pagination == [][C24_PaginationStep]_vars

\* After two requests or more the fetch ended at the maximum, with more
\* messages announced and a cursor given.
C24_Witness ==
    /\ paging.state = "fetched"
    /\ paging.requests >= 2
    /\ paging.has_more /\ paging.next_cursor # ""
    /\ Len(paging.all_messages) = paging.max_messages


\* C28: a channel whose history fetch failed on any page has nothing ingested:
\* the failing request hands no message to the loop over the messages, the
\* pages fetched before it are dropped, the collection is as before, and no
\* document of that channel is ever upserted in the run.
C28_FailedFetchIngestsNothing ==
    /\ [](\A id \in upserted : id[2] \notin paging.failed)
    /\ [][(Requested /\ paging'.failed # paging.failed)
            => /\ docs' = docs /\ upserted' = upserted
               /\ run'.todo = <<>> /\ run'.phase # "messages"
               /\ paging'.all_messages = <<>>
               /\ paging'.state = "idle"]_vars

\* The second channel's fetch failed after a page with messages, which were
\* dropped; the first channel's messages were fetched and one was stored.
C28_Witness ==
    /\ paging.failed = {2}
    /\ paging.discarded > 0
    /\ upserted # {}


\* ------------------------------------------------ history beyond the scan
\* The records in the scope of the history read that just returned, and those
\* of them inside its days-back window.
HistoryMatching ==
    {i \in DOMAIN store :
        Matches(store[i].payload, ScopeFilter(ret.args.tenant, ret.args.user_id))}

HistoryWindow ==
    {i \in HistoryMatching :
        \/ ret.args.days_back = 0
        \/ /\ Get(store[i].payload, "timestamp", 0) # 0
           /\ Get(store[i].payload, "timestamp", 0)
                 > clock - ret.args.days_back * Day}

\* C25: with at most 2 * limit records in scope, get_query_history returns the
\* newest records of the window, newest first, `limit` of them or the whole
\* window when it has fewer: every returned row is a record of the window and
\* every record of the window left out is older than every row returned.
C25_HistoryNewest ==
    (ret.op = "get_query_history"
        /\ Cardinality(HistoryMatching) <= 2 * ret.args.limit)
    => /\ Len(ret.rows) = Min(ret.args.limit, Cardinality(HistoryWindow))
       /\ \A k \in 1..Len(ret.rows) : ret.rows[k].id \in HistoryWindow
       /\ \A k \in 1..(Len(ret.rows) - 1) :
              ret.rows[k].timestamp > ret.rows[k + 1].timestamp
       /\ \A i \in HistoryWindow :
              (\A k \in 1..Len(ret.rows) : ret.rows[k].id # i)
              => \A k \in 1..Len(ret.rows) :
                     Get(store[i].payload, "timestamp", 0) < ret.rows[k].timestamp

\* Exactly 2 * limit records in scope, more than `limit` of them in the
\* window: the rows returned are cut to `limit`.
C25_Witness ==
    /\ ret.op = "get_query_history"
    /\ Cardinality(HistoryMatching) = 2 * ret.args.limit
    /\ Cardinality(HistoryWindow) > ret.args.limit
    /\ Len(ret.rows) = ret.args.limit

\* More than 2 * limit records in scope, and a record of the window left out
\* that is newer than a row returned, or left out of an answer with room.
C25_NewestMissed ==
    /\ ret.op = "get_query_history"
    /\ Cardinality(HistoryMatching) > 2 * ret.args.limit
    /\ \E i \in HistoryWindow :
          /\ \A k \in 1..Len(ret.rows) : ret.rows[k].id # i
          /\ \/ Len(ret.rows) < ret.args.limit
             \/ \E k \in 1..Len(ret.rows) :
                   Get(store[i].payload, "timestamp", 0) > ret.rows[k].timestamp


\* ------------------------------------------- the memory step of a search
\* len(query) of the queries sent.
QueryLength(query) ==
    CASE query = "" -> 0
      [] query = QBlank -> 2
      [] query = QPadded -> 22
      [] query = QDeploy -> 20
      [] query = QAuth -> 21
      [] OTHER -> 1

\* search_with_memory of src/search_with_memory.py, over the functions of
\* src/memory.py: the two reads, the placeholder search with its one result,
\* save_query, then the dictionary returned.  Nothing is caught: a call that
\* raises ends the function with no value (status 0).
SearchWithMemory(query, user_id, sources, faults) ==
    /\ clock < MaxClock
    /\ clock' = clock + 1
    /\ IF faults \cap MemoryFaults # {}
       THEN /\ store' = store
            /\ http' = Answer("search_with_memory", query, user_id,
                              faults \cap MemoryFaults, 0, NoBody)
       ELSE \E similar_queries \in GetSimilarQueries(store, TENANT_ID, query, 3,
                                                     user_id, 70),
               recent_history \in GetQueryHistory(store, TENANT_ID, user_id, 5, 0,
                                                  clock') :
            /\ store' = Upsert(store, clock', Embed(query),
                    BuildPayload([tenant |-> TENANT_ID, query |-> query,
                                  user_id |-> user_id, results_clicked |-> <<>>,
                                  sources_searched |-> sources, result_count |-> 1,
                                  metadata |-> [query_length |-> QueryLength(query),
                                                has_results |-> TRUE]], clock'))
            /\ http' = Answer("search_with_memory", query, user_id, {}, 200,
                    [NoBody EXCEPT
                        !.results = <<[id |-> "result1", summary |-> "None"]>>,
                        !.memory =
                            [present |-> TRUE,
                             similar_queries |-> similar_queries,
                             recent_history |-> recent_history,
                             suggestions |-> [k \in DOMAIN similar_queries |->
                                                similar_queries[k].query]]])
    /\ UNCHANGED <<pc, loc, saved, last, ret, fit, ingestVars, scriptVars, verdict,
                   app>>

\* Search requests one at a time, to a backend taken as started or through
\* search_with_memory; any one call of the memory step may raise.
NextSearch ==
    \/ \E query \in SearchQueries, user_id \in {NoUser, "alice"},
          faults \in {{}} \cup {{f} : f \in MemoryFaults \cup {"embed"}},
          hits \in HitLists :
            Search(query, user_id, faults, hits)
    \/ \E query \in {QDeploy, QAuth}, user_id \in {NoUser, "alice"},
          sources \in {<<>>, <<"slack">>},
          faults \in {{}} \cup {{f} : f \in MemoryFaults} :
            SearchWithMemory(query, user_id, sources, faults)

SpecSearch == InitServe /\ [][NextSearch]_vars

\* A search request answered with success by a backend that has a memory
\* service.
Searched ==
    /\ clock' = clock + 1
    /\ http'.endpoint = "search"
    /\ http'.status = 200
    /\ app.memory_service

\* A search that returned, through the handler or search_with_memory.
Returned ==
    /\ clock' = clock + 1
    /\ http'.endpoint \in {"search", "search_with_memory"}

\* C26: the reads of a search request come before its save: the record the
\* request saves is new, and every row of similar_queries and recent_history
\* in its response is a record the store held before the request, never the
\* one the request saved; suggestions are the query texts of those rows.
C26_ReadsBeforeSave ==
    [][(Returned /\ http'.body.memory.present)
        => LET memory == http'.body.memory
           IN  /\ clock' \in DOMAIN store' /\ clock' \notin DOMAIN store
               /\ \A k \in DOMAIN memory.similar_queries :
                      /\ memory.similar_queries[k].id \in DOMAIN store
                      /\ memory.similar_queries[k].id # clock'
               /\ \A k \in DOMAIN memory.recent_history :
                      /\ memory.recent_history[k].id \in DOMAIN store
                      /\ memory.recent_history[k].id # clock'
               /\ memory.suggestions
                     = [k \in DOMAIN memory.similar_queries |->
                          memory.similar_queries[k].query]]_vars

\* The second search of one query by one user: both reads found the record of
\* the first, and the record this request saved, with the same text, is in
\* the store and in neither list.
C26_Witness ==
    /\ http.endpoint = "search"
    /\ http.body.memory.present
    /\ Len(http.body.memory.similar_queries) = 1
    /\ Len(http.body.memory.recent_history) = 1
    /\ clock \in DOMAIN store
    /\ store[clock].payload.query = Trimmed(http.query)
    /\ http.body.memory.similar_queries[1].query = Trimmed(http.query)
    /\ http.body.memory.similar_queries[1].id # clock
    /\ http.body.memory.recent_history[1].id # clock

\* C27: the memory block of a search response is all or nothing.  It is there
\* exactly when none of get_similar_queries, get_query_history and save_query
\* raised, and then the query is recorded; when a read raised, the store is as
\* before (save_query was not called); when save_query raised, the block is
\* null, whatever the reads had found.
C27_AllOrNothing ==
    [][Searched
        => LET memory == http'.body.memory
               failed == http'.failed
           IN  /\ memory.present <=> failed \cap MemoryFaults = {}
               /\ memory.present => clock' \in DOMAIN store'
               /\ ~memory.present => memory = NoMemory
               /\ failed \cap {"get_similar_queries", "get_query_history"} # {}
                     => store' = store
               /\ "save_query" \in failed => memory = NoMemory]_vars

\* save_query raised in a search whose reads had a record to find: the store
\* holds a record of the same query and user, and the block is null.
C27_Witness ==
    /\ http.endpoint = "search"
    /\ http.status = 200
    /\ "save_query" \in http.failed
    /\ http.body.memory = NoMemory
    /\ \E i \in DOMAIN store :
          /\ store[i].payload.query = Trimmed(http.query)
          /\ Get(store[i].payload, "user_id", NoUser) = http.user_id


\* ------------------------------------------- conservation in the aggregates
RECURSIVE Total(_)
Total(numbers) ==
    IF numbers = <<>> THEN 0 ELSE Head(numbers) + Total(Tail(numbers))

\* The history records get_popular_queries considers: the tenant's records
\* inside the window.
AllConsidered ==
    UNION {Considered(ret.args.tenant, ret.args.days_back, store[i].payload.query)
           : i \in DOMAIN store}

EmbedMaxTokens == 6000

\* Contents that fit the budget, that fit it by a character, and that do not.
ContentLengths ==
    {0, 40, EmbedMaxTokens * CharsPerToken + 3, EmbedMaxTokens * CharsPerToken + 4,
     EmbedMaxTokens * CharsPerToken + MaxTextLen}

\* Completions of the fitter: none, an empty summary, a short one, and one
\* that is itself too long.
LongCompletions ==
    {c \in Completions : c.summary \in {0, MaxSummaryLen}}
        \cup {[ok |-> TRUE, summary |-> EmbedMaxTokens * CharsPerToken]}

\* embed(text): the vector of the text chunk_text returns.
embed_text(text, llm) == [of |-> chunk_text(text, EmbedMaxTokens, llm).result]

\* An upsert_doc that stores the text it embedded.
upsert_text_fitted(d, doc_id, content, type, llm, stored) ==
    IF stored
    THEN Upsert(d, str_to_uuid(doc_id), embed_text(content, llm),
                [content |-> chunk_text(content, EmbedMaxTokens, llm).result,
                 type |-> type])
    ELSE d

\* upsert_doc(doc_id, content, metadata): the collection after it.  `stored`
\* is whether the embedding and the upsert went through; a failure of either
\* is printed and leaves the collection as it was.
upsert_text(d, doc_id, content, type, llm, stored) ==
    IF stored
    THEN Upsert(d, str_to_uuid(doc_id), embed_text(content, llm),
                [content |-> content, type |-> type])
    ELSE d

\* One upsert_doc call; `fit` keeps the chunk_text call embed made.
UpsertText(doc_id, content, type, llm, stored) ==
    /\ docs' = upsert_text(docs, doc_id, content, type, llm, stored)
    /\ upserted' = IF stored THEN upserted \cup {doc_id} ELSE upserted
    /\ LET r == chunk_text(content, EmbedMaxTokens, llm)
       IN  fit' = [op |-> "chunk_text", text |-> content,
                   max_tokens |-> EmbedMaxTokens, path |-> r.path,
                   result |-> r.result]
    /\ UNCHANGED <<memoryVars, run, scriptVars, verdict, backendVars>>

NextStore ==
    \E doc_id \in {<<"gh_readme", 1, 0>>, <<"slack_msg", 1, 1>>},
       content \in ContentLengths, llm \in LongCompletions, stored \in BOOLEAN :
        UpsertText(doc_id, content, IF doc_id[1] = "gh_readme" THEN "readme"
                                    ELSE "slack", llm, stored)

SpecStore == Init /\ [][NextStore]_vars

\* C30: upsert_doc stores the content it was given: the point it writes has
\* that content in its payload, whatever the fitter made of it, and a vector
\* computed from the fitted text; a call that fails writes nothing.
C30_StoresContentGiven ==
    [][\A id \in DOMAIN docs' :
          (id \notin DOMAIN docs \/ docs'[id] # docs[id])
          => /\ docs'[id].payload.content = fit'.text
             /\ docs'[id].vector = [of |-> fit'.result]]_vars

\* A stored content over the budget, with a vector of a shorter, fitted text.
C30_Witness ==
    \E id \in DOMAIN docs :
        /\ estimate_tokens(docs[id].payload.content) > EmbedMaxTokens
        /\ docs[id].vector.of < docs[id].payload.content
        /\ fit.text = docs[id].payload.content
        /\ fit.path # "fits"

====
